---- MODULE Spec2Model ----
(***************************************************************************)
(* Mercury generative design: the seeded generator, the palette            *)
(* quantizer and error-diffusion dither, the flower arrangement generator  *)
(* and the life cycle (load callbacks, build, draw) of the sketches.       *)
(*                                                                         *)
(* Sketch variants are named after the files that hold them:               *)
(*   "part_001"     createSketch using generateFlowerArrangement           *)
(*   "createSketch" src/sketch/createSketch.ts (inline flower placement)   *)
(*   "part_002"     two-layer sketch with a shared budget                  *)
(*   "part_003"     three-layer sketch (bottom, top, optional side)        *)
(*   "part_004"     two-layer sketch, bottom layer drawn in full           *)
(***************************************************************************)
EXTENDS Integers, Sequences, FiniteSets, TLC

(***************************************************************************)
(* 32-bit unsigned arithmetic on two 16-bit halves [hi, lo]                *)
(***************************************************************************)
W16 == 256 * 256

RECURSIVE BitXor(_, _, _)
BitXor(a, b, n) ==
    IF n = 0 THEN 0
    ELSE (((a % 2) + (b % 2)) % 2) + 2 * BitXor(a \div 2, b \div 2, n - 1)

RECURSIVE BitOr(_, _, _)
BitOr(a, b, n) ==
    IF n = 0 THEN 0
    ELSE (IF (a % 2) = 1 \/ (b % 2) = 1 THEN 1 ELSE 0)
         + 2 * BitOr(a \div 2, b \div 2, n - 1)

RECURSIVE Pow2(_)
Pow2(n) == IF n = 0 THEN 1 ELSE 2 * Pow2(n - 1)

Word(h, l) == [hi |-> h, lo |-> l]

\* n >>> 0 for a number 0 <= n < 2^31
ToUint32(n) == Word(n \div W16, n % W16)

Xor32(a, b) == Word(BitXor(a.hi, b.hi, 16), BitXor(a.lo, b.lo, 16))

Or32(a, b) == Word(BitOr(a.hi, b.hi, 16), BitOr(a.lo, b.lo, 16))

\* a >>> s for 0 < s < 16
Shr32(a, s) ==
    Word(a.hi \div Pow2(s),
         (a.lo \div Pow2(s)) + (a.hi % Pow2(s)) * Pow2(16 - s))

Add32(a, b) ==
    Word((a.hi + b.hi + ((a.lo + b.lo) \div W16)) % W16, (a.lo + b.lo) % W16)

\* the 32-bit product of two 16-bit numbers
Mul16(a, b) ==
    LET p0 == (a % 256) * b
        p1 == (a \div 256) * b
        s  == p0 + (p1 % 256) * 256
    IN  Word(((p1 \div 256) + (s \div W16)) % W16, s % W16)

\* Math.imul: the low 32 bits of the product
imul(a, b) ==
    LET ll == Mul16(a.lo, b.lo)
    IN  Word((ll.hi + Mul16(a.hi, b.lo).lo + Mul16(a.lo, b.hi).lo) % W16, ll.lo)

(***************************************************************************)
(* mulberry32.  The closure variable t is a JavaScript number that is      *)
(* never wrapped: ov counts how often t has passed 2^32, so                *)
(* t = ov * 2^32 + hi * 2^16 + lo.  The bit operations see t mod 2^32.     *)
(***************************************************************************)
mulberry32(seedWord) == [hi |-> seedWord.hi, lo |-> seedWord.lo, ov |-> 0]

\* t += 0x6d2b79f5
mulberryAdvance(t) ==
    LET lo == t.lo + 31221
        hi == t.hi + 27947 + (lo \div W16)
    IN  [hi |-> hi % W16, lo |-> lo % W16, ov |-> t.ov + (hi \div W16)]

\* the 32-bit value the call returns (before the division by 2^32),
\* computed from the advanced state
mulberryOut(t) ==
    LET u  == Word(t.hi, t.lo)
        n1 == imul(Xor32(u, Shr32(u, 15)), Or32(u, Word(0, 1)))
        n2 == Xor32(n1, Add32(n1, imul(Xor32(n1, Shr32(n1, 7)), Or32(n1, Word(0, 61)))))
    IN  Xor32(n2, Shr32(n2, 14))

\* Math.floor(rand() * m) for the returned 32-bit value u and 0 < m < 2^15
FloorMul(u, m) == (u.hi * m + ((u.lo * m) \div W16)) \div W16

(***************************************************************************)
(* Palette and the nearest-colour lookup                                   *)
(***************************************************************************)
Variants == {"part_001", "createSketch", "part_002", "part_003", "part_004"}

MultiVariants == {"part_002", "part_003", "part_004"}

palette(v) ==
    IF v = "part_001" THEN
        << <<0, 0, 0>>, <<66, 133, 244>>, <<234, 67, 53>>, <<251, 188, 5>>,
           <<52, 168, 83>>, <<248, 249, 250>> >>
    ELSE IF v = "part_003" THEN
        << <<0, 0, 0>>, <<0, 0, 0>>, <<66, 133, 244>>, <<255, 50, 0>>,
           <<234, 67, 53>>, <<180, 288, 5>>, <<52, 200, 3>>, <<248, 249, 250>> >>
    ELSE
        << <<0, 0, 0>>, <<0, 0, 0>>, <<66, 133, 244>>, <<234, 67, 53>>,
           <<251, 188, 5>>, <<52, 168, 83>>, <<248, 249, 250>> >>

darkestColor(v) == palette(v)[1]

isDarkest(v, r, g, b) ==
    r = darkestColor(v)[1] /\ g = darkestColor(v)[2] /\ b = darkestColor(v)[3]

\* Channel values inside applyDither are multiples of 1/Fix (Float32Array
\* holds every such value below 256 exactly).
Fix == 16 * 16 * 16 * 16

\* Squared distances of Fix-scaled channels exceed 31 bits: they are kept as
\* three digits in base LimbBase * LimbBase.
LimbBase == 64 * 128

SqParts(d) ==
    LET a  == IF d < 0 THEN -d ELSE d
        x1 == a \div LimbBase
        x0 == a % LimbBase
    IN  <<x1 * x1, 2 * x1 * x0, x0 * x0>>

\* dr*dr + dg*dg + db*db as normalised digits <<high, middle, low>>
Dist2(dr, dg, db) ==
    LET pr == SqParts(dr)
        pg == SqParts(dg)
        pb == SqParts(db)
        l0 == pr[3] + pg[3] + pb[3]
        l1 == pr[2] + pg[2] + pb[2] + (l0 \div LimbBase)
        l2 == pr[1] + pg[1] + pb[1] + (l1 \div LimbBase)
    IN  <<l2, l1 % LimbBase, l0 % LimbBase>>

DistLess(p, q) ==
    \/ p[1] < q[1]
    \/ p[1] = q[1] /\ p[2] < q[2]
    \/ p[1] = q[1] /\ p[2] = q[2] /\ p[3] < q[3]

\* the loop of nearestPalette over palette[i..]: best is the least distance
\* so far (<<>> for +Infinity), pick the entry that has it
RECURSIVE nearestScan(_, _, _, _, _, _, _)
nearestScan(v, r, g, b, i, best, pick) ==
    IF i > Len(palette(v)) THEN pick
    ELSE LET e  == palette(v)[i]
             d2 == Dist2(r - e[1] * Fix, g - e[2] * Fix, b - e[3] * Fix)
         IN  IF best = <<>> \/ DistLess(d2, best)
             THEN nearestScan(v, r, g, b, i + 1, d2, e)
             ELSE nearestScan(v, r, g, b, i + 1, best, pick)

\* the colour substitutions part_003 makes after the scan
remapPick(v, pick) ==
    IF v # "part_003" THEN pick
    ELSE IF pick = <<234, 67, 53>> THEN <<208, 50, 117>>
    ELSE IF pick = <<66, 133, 244>> THEN <<82, 102, 235>>
    ELSE IF pick = <<248, 249, 250>> THEN <<255, 255, 255>>
    ELSE pick

\* r, g, b are Fix-scaled; the result is an (unscaled) RGB triple
nearestPalette(v, r, g, b) ==
    remapPick(v, nearestScan(v, r, g, b, 1, <<>>, palette(v)[1]))

(***************************************************************************)
(* Rasters: [w, h, px] with px a function from the linear index            *)
(* 0 .. w*h-1 to <<r, g, b, a>> (the Uint8ClampedArray of a p5.Image)      *)
(***************************************************************************)
Min(a, b) == IF a < b THEN a ELSE b

Max(a, b) == IF a > b THEN a ELSE b

unclamped(value) == value

clamp255(value) == Max(0, Min(255, value))

\* clamp255 on a Fix-scaled value
clamp255Fix(value) == Max(0, Min(255 * Fix, value))

\* Storing the number n/d (d > 0) into a Uint8ClampedArray: round to the
\* nearest integer, ties to even, then clamp to 0..255
ToUint8Clamped(n, d) ==
    LET q == n \div d
        r == n % d
        rounded == IF 2 * r < d THEN q
                   ELSE IF 2 * r > d THEN q + 1
                   ELSE IF q % 2 = 0 THEN q ELSE q + 1
    IN  clamp255(rounded)

adjustBrightness(img, offset) ==
    [img EXCEPT !.px = [i \in DOMAIN img.px |->
        << ToUint8Clamped(clamp255(img.px[i][1] + offset), 1),
           ToUint8Clamped(clamp255(img.px[i][2] + offset), 1),
           ToUint8Clamped(clamp255(img.px[i][3] + offset), 1),
           img.px[i][4] >>]]

\* One channel of adjustContrast: factor * (c - 128) + 128 with
\* factor = 259 * (cf + 255) / (255 * (259 - cf)), stored into the pixel
\* array.  With cf = 259 the factor is +Infinity: the sum is +Infinity
\* (stored 255), -Infinity (stored 0) or NaN for c = 128 (stored 0).
contrastChannel(c, cf) ==
    LET num == 259 * (cf + 255) * (c - 128)
        den == 255 * (259 - cf)
    IN  IF den > 0 THEN ToUint8Clamped(num + 128 * den, den)
        ELSE IF den < 0 THEN ToUint8Clamped(-(num + 128 * den), -den)
        ELSE IF num > 0 THEN 255
        ELSE 0

\* TRUE when the channel value computed by adjustContrast is NaN
contrastIsNaN(c, cf) ==
    255 * (259 - cf) = 0 /\ 259 * (cf + 255) * (c - 128) = 0

adjustContrast(img, cf) ==
    [img EXCEPT !.px = [i \in DOMAIN img.px |->
        << contrastChannel(img.px[i][1], cf),
           contrastChannel(img.px[i][2], cf),
           contrastChannel(img.px[i][3], cf),
           img.px[i][4] >>]]

\* distribute(x, y, err, factor) on the three working arrays; k is the
\* numerator of factor = k/16.  The sum is rounded to a multiple of 1/Fix,
\* ties to even, as the Float32Array store does for values of 128 and more.
distributeChannel(old, err, k) ==
    LET n16 == old * 16 + err * k
        q   == n16 \div 16
        r   == n16 % 16
        rounded == IF r < 8 THEN q
                   ELSE IF r > 8 THEN q + 1
                   ELSE IF q % 2 = 0 THEN q ELSE q + 1
    IN  clamp255Fix(rounded)

distribute(buf, w, h, x, y, err, k) ==
    IF x < 0 \/ x >= w \/ y < 0 \/ y >= h THEN buf
    ELSE LET idx == x + y * w
         IN  [buf EXCEPT ![idx] =
                 << distributeChannel(buf[idx][1], err[1], k),
                    distributeChannel(buf[idx][2], err[2], k),
                    distributeChannel(buf[idx][3], err[3], k) >>]

\* the four distribute calls of one iteration, in the order of the code
spreadError(buf, w, h, x, y, err) ==
    distribute(
        distribute(
            distribute(
                distribute(buf, w, h, x + 1, y, err, 7),
                w, h, x - 1, y + 1, err, 3),
            w, h, x, y + 1, err, 5),
        w, h, x + 1, y + 1, err, 1)

\* r[idx] = nr etc. with the palette colour pick, then the error is spread
storePick(buf, w, h, idx, old, pick) ==
    spreadError([buf EXCEPT ![idx] = <<pick[1] * Fix, pick[2] * Fix, pick[3] * Fix>>],
                w, h, idx % w, idx \div w,
                << old[1] - pick[1] * Fix, old[2] - pick[2] * Fix,
                   old[3] - pick[3] * Fix >>)

\* one iteration of the pixel loop of applyDither, at linear index idx
ditherPixel(v, buf, w, h, idx) ==
    storePick(buf, w, h, idx, buf[idx],
              nearestPalette(v, buf[idx][1], buf[idx][2], buf[idx][3]))

\* the pixel loop from idx on (the arrays keep their length, which is
\* looked at so that each iteration is evaluated before the next starts)
RECURSIVE ditherLoop(_, _, _, _, _)
ditherLoop(v, buf, w, h, idx) ==
    IF idx >= w * h THEN buf
    ELSE LET next == ditherPixel(v, buf, w, h, idx)
         IN  IF DOMAIN next = DOMAIN buf
             THEN ditherLoop(v, next, w, h, idx + 1)
             ELSE buf

\* the working arrays r, g, b after the pixel loop
ditherBuffers(v, img) ==
    ditherLoop(v,
               [i \in DOMAIN img.px |->
                   <<img.px[i][1] * Fix, img.px[i][2] * Fix, img.px[i][3] * Fix>>],
               img.w, img.h, 0)

\* the closing loop: pixels[i] = r[i] etc., alpha 255
storeBuffers(img, buf) ==
    [img EXCEPT !.px = [i \in DOMAIN img.px |->
        << ToUint8Clamped(buf[i][1], Fix), ToUint8Clamped(buf[i][2], Fix),
           ToUint8Clamped(buf[i][3], Fix), 255 >>]]

applyDither(v, img) == storeBuffers(img, ditherBuffers(v, img))

(***************************************************************************)
(* State                                                                   *)
(***************************************************************************)
VARIABLES
    \* the image pipeline applied to one raster
    pVariant,       \* the sketch variant whose palette is used
    pImg,           \* the raster
    pStage,         \* "raw", "brightness", "contrast" or "dither": the last stage applied
    pOffset,        \* brightness offset
    pFactor,        \* contrast factor
    pNaN,           \* adjustContrast computed a NaN channel value
    pLog,           \* the stages applied to the raster so far, in order
    pIdx            \* the index list collected from the raster

pipeVars == <<pVariant, pImg, pStage, pOffset, pFactor, pNaN, pLog, pIdx>>

VARIABLES
    \* one multi-layer sketch instance (part_002, part_003, part_004)
    mVariant,       \* which file's sketch
    mCfg,           \* the options the sketch was created with
    mPending,       \* layers whose p.loadImage has not called back yet
    mRemaining,     \* the counter of setup's done()
    mRaw,           \* rawBottom, rawTop, rawSide ("null" or a source image)
    mImg,           \* imgBottom, imgTop, imgSide ("null" or a raster)
    mDrawIdx,       \* drawIdxBottom, drawIdxTop, drawIdxSide
    mDrawCount,     \* drawCountBottom, drawCountTop, drawCountSide
    mIsReady,       \* isReady
    mFrame,         \* p.frameCount
    mDrawn,         \* per layer, the cells the last draw call realized
    mShuffledAt,    \* the frame count of the last reshuffle made by draw (0: none)
    mBuilds,        \* how often rebuildImagesAndCaches has run
    mFailed         \* layers whose load called the failure callback

multiVars ==
    <<mVariant, mCfg, mPending, mRemaining, mRaw, mImg, mDrawIdx, mDrawCount,
      mIsReady, mFrame, mDrawn, mShuffledAt, mBuilds, mFailed>>

VARIABLES
    \* one createSketch instance (part_001 or src/sketch/createSketch.ts)
    sVariant,       \* which file's sketch
    sCfg,           \* the options, and which sprite files fail to load
    sImagePending,  \* the source image's p.loadImage has not called back yet
    sPendingSprites,\* sprites whose p.loadImage has not called back yet
    sRemaining,     \* the counter of loadFlowerSprites' done()
    sLoaded,        \* indices i with loaded[i] set
    sFlowerSprites, \* flowerSprites
    sRaw,           \* raw
    sFitted,        \* fittedW > 0 and fittedH > 0
    sPlacements,    \* flowerPlacements
    sImg,           \* img
    sDrawIdx,       \* drawIdx
    sDrawCount,     \* drawCount
    sIsReady,       \* isReady
    sDrawn,         \* what the last draw call handed to the renderer
    sBuilds,        \* how often rebuildImageAndCache has run to its end
    sComposited,    \* the sprites the last build drew, in drawing order
    sReshuffled     \* the last draw call shuffled drawIdx

sketchVars ==
    <<sVariant, sCfg, sImagePending, sPendingSprites, sRemaining, sLoaded,
      sFlowerSprites, sRaw, sFitted, sPlacements, sImg, sDrawIdx, sDrawCount,
      sIsReady, sDrawn, sBuilds, sComposited, sReshuffled>>

VARIABLES
    \* one call of generateFlowerArrangement, and the compositing of its result
    aCfg,           \* the options and the ring options derived from them
    aStream,        \* the period of the random stream, as candidate draws
    aUsed,          \* how many candidate draws have been taken from the stream
    aRing,          \* "outer", "inner": the ring being built; "done"; "composited"
    aAttempt,       \* attempt, the loop counter of buildRingPoints
    aOuter,         \* points of the outer ring
    aInner,         \* points of the inner ring
    aPoints,        \* the returned list
    aDrawn          \* the placements the compositor has drawn, in drawing order

arrVars == <<aCfg, aStream, aUsed, aRing, aAttempt, aOuter, aInner, aPoints, aDrawn>>

VARIABLES
    \* calls of a preset generator with one configuration
    gGenerator,     \* the generator called
    gSeed,          \* the top seed
    gCount,         \* the requested count
    gRanges,        \* config.ranges
    gFixed,         \* config.fixed
    gFirst,         \* the result of the call
    gSecond,        \* the result of a second call with equal inputs
    gOther,         \* the result of a call with another count
    gPlain          \* the result of a call without fixed overrides

genVars == <<gGenerator, gSeed, gCount, gRanges, gFixed, gFirst, gSecond, gOther, gPlain>>

VARIABLES
    \* one generator made by mulberry32
    rSeed,          \* the seed it was made with
    rState,         \* the closure variable t
    rCalls,         \* the number of calls made
    rOut,           \* the 32-bit value behind the last returned number
    rLive           \* the generator exists

rngVars == <<rSeed, rState, rCalls, rOut, rLive>>

VARIABLES
    \* the counts generateFlowerArrangement derives from options.flowerCount
    cRaw,           \* options.flowerCount, in tenths
    cShare,         \* outerShare, in hundredths
    cStage,         \* "idle", "called" or "derived"
    cEff,           \* flowerCount
    cOuter,         \* outerCount
    cInner          \* innerCount

cntVars == <<cRaw, cShare, cStage, cEff, cOuter, cInner>>

VARIABLES
    \* SeededSketchPage and the sketch instances its effect has created
    pgIndex,        \* index (the preset shown)
    pgRef,          \* sketchRef.current: an instance number, 0 for null
    pgInst          \* the instances created so far, in order of creation

pageVars == <<pgIndex, pgRef, pgInst>>

VARIABLES
    \* the working resolution of createSketch and the cells draw maps to
    rOpt,           \* vars.pixelScale: whether given, and its value in tenths
    rCanvas,        \* p.width and p.height
    rDarkEvery,     \* every how many cells of the raster is of the darkest colour
    rStage,         \* "idle", "called", "options", "built" or "drawn"
    rPixelScale,    \* pixelScale
    rFinalW,        \* finalW
    rFinalH,        \* finalH
    rDrawIdx,       \* drawIdx
    rCells          \* the <<x, y, px, py>> of the cells of one draw call

gridVars == <<rOpt, rCanvas, rDarkEvery, rStage, rPixelScale, rFinalW, rFinalH,
              rDrawIdx, rCells>>

VARIABLES
    \* the layer budgets of one draw call of a multi-layer sketch
    bdVariant,      \* which sketch
    bdCfg,          \* maxPixels and minCoverage as given
    bdCount,        \* drawCountBottom, drawCountTop, drawCountSide
    bdStage,        \* "idle", "ready" or "drawn"
    bdBudget        \* bottomBudget, topBudget, sideBudget

budVars == <<bdVariant, bdCfg, bdCount, bdStage, bdBudget>>

VARIABLES
    \* buildFlowerPlacements of createSketch.ts, slot by slot
    ipSeed,         \* RNG_SEED
    ipFitted,       \* fittedW and fittedH
    ipSprites,      \* flowerSprites.length
    ipStream,       \* the period of the random stream after the count, as draws
    ipUsed,         \* how many draws of the stream have been used
    ipStage,        \* "idle", "called", "placing" or "done"
    ipCount,        \* count
    ipSlot,         \* i
    ipPlaced,       \* placed
    ipFallbacks,    \* how many slots ran out of attempts
    ipResult        \* flowerPlacements

inlineVars == <<ipSeed, ipFitted, ipSprites, ipStream, ipUsed, ipStage, ipCount,
                ipSlot, ipPlaced, ipFallbacks, ipResult>>

vars == <<pipeVars, multiVars, sketchVars, arrVars, genVars, rngVars, cntVars, pageVars, gridVars, budVars, inlineVars>>

(***************************************************************************)
(* Sample inputs                                                           *)
(***************************************************************************)
\* rasters are at most MaxW x MaxH
MaxW == 2

MaxH == 2

\* RGBA values of input pixels: transparent black, a mid grey, two colours
\* next to palette entries, a near white
SampleColors ==
    << <<0, 0, 0, 0>>, <<128, 128, 128, 255>>, <<234, 67, 53, 255>>,
       <<180, 255, 5, 255>>, <<250, 250, 250, 255>> >>

NColors == Len(SampleColors)

\* the raster whose pixel (x, y) has colour number (a*x + b*y + c) mod NColors
PatternRaster(w, h, a, b, c) ==
    [w |-> w, h |-> h,
     px |-> [i \in 0 .. (w * h - 1) |->
                SampleColors[((a * (i % w) + b * (i \div w) + c) % NColors) + 1]]]

SampleRasters ==
    {PatternRaster(w, h, a, b, c) :
        w \in 1 .. MaxW, h \in 1 .. MaxH,
        a \in 0 .. (NColors - 1), b \in 0 .. (NColors - 1), c \in 0 .. (NColors - 1)}

\* BRIGHTNESS_OFFSET is vars.brightnessOffset ?? default: whatever number the
\* caller passes
SampleOffsets == {-300, -20, -10, 0, 300}

\* CONTRAST_FACTOR is vars.contrastFactor ?? default: whatever number the
\* caller passes, 259 included
SampleFactors == {-255, 0, 10, 20, 259, 300}

(***************************************************************************)
(* The image pipeline on one raster (brightness, contrast, dither) and the *)
(* collection of its index list                                            *)
(***************************************************************************)
\* buildTopCache / buildBottomCache / buildSideCache: the linear indices of
\* the pixels that are not the darkest colour, in raster order
RECURSIVE collectIndices(_, _, _)
collectIndices(v, img, i) ==
    IF i >= img.w * img.h THEN <<>>
    ELSE (IF isDarkest(v, img.px[i][1], img.px[i][2], img.px[i][3])
          THEN <<>> ELSE <<i>>) \o collectIndices(v, img, i + 1)

\* the statements of a build that follow the preparation of the raster
buildSteps == <<"brightness", "contrast", "dither", "collect">>

\* a build that adjusts the contrast before the brightness
contrastFirst(log) ==
    IF Len(log) < Len(buildSteps)
    THEN <<"contrast", "brightness", "dither", "collect">>[Len(log) + 1]
    ELSE "done"

\* the statement the build executes next, log being the statements executed
\* so far ("done" after the last)
nextStep(log) ==
    IF Len(log) < Len(buildSteps) THEN buildSteps[Len(log) + 1] ELSE "done"

PipeIdle ==
    /\ pVariant = "part_001"
    /\ pImg = PatternRaster(1, 1, 0, 0, 0)
    /\ pStage = "idle"
    /\ pOffset = 0
    /\ pFactor = 0
    /\ pNaN = FALSE
    /\ pLog = <<>>
    /\ pIdx = <<>>

PipeStart ==
    /\ pVariant \in Variants
    /\ pImg \in SampleRasters
    /\ pStage = "raw"
    /\ pOffset \in SampleOffsets
    /\ pFactor \in SampleFactors
    /\ pNaN = FALSE
    /\ pLog = <<>>
    /\ pIdx = <<>>

PipeBrightness ==
    /\ nextStep(pLog) = "brightness"
    /\ pImg' = adjustBrightness(pImg, pOffset)
    /\ pStage' = "brightness"
    /\ pLog' = Append(pLog, "brightness")
    /\ UNCHANGED <<pVariant, pOffset, pFactor, pNaN, pIdx>>
    /\ UNCHANGED <<multiVars, sketchVars, arrVars, genVars, rngVars, cntVars, pageVars, gridVars, budVars, inlineVars>>

PipeContrast ==
    /\ nextStep(pLog) = "contrast"
    /\ pImg' = adjustContrast(pImg, pFactor)
    /\ pStage' = "contrast"
    /\ pLog' = Append(pLog, "contrast")
    /\ pNaN' = \E i \in DOMAIN pImg.px : \E ch \in 1 .. 3 :
                    contrastIsNaN(pImg.px[i][ch], pFactor)
    /\ UNCHANGED <<pVariant, pOffset, pFactor, pIdx>>
    /\ UNCHANGED <<multiVars, sketchVars, arrVars, genVars, rngVars, cntVars, pageVars, gridVars, budVars, inlineVars>>

PipeDither ==
    /\ nextStep(pLog) = "dither"
    /\ pImg' = applyDither(pVariant, pImg)
    /\ pStage' = "dither"
    /\ pLog' = Append(pLog, "dither")
    /\ UNCHANGED <<pVariant, pOffset, pFactor, pNaN, pIdx>>
    /\ UNCHANGED <<multiVars, sketchVars, arrVars, genVars, rngVars, cntVars, pageVars, gridVars, budVars, inlineVars>>

\* img.loadPixels() and the loop that pushes the index of every pixel that
\* is not the darkest colour
PipeCollect ==
    /\ nextStep(pLog) = "collect"
    /\ pIdx' = collectIndices(pVariant, pImg, 0)
    /\ pStage' = "collected"
    /\ pLog' = Append(pLog, "collect")
    /\ UNCHANGED <<pVariant, pImg, pOffset, pFactor, pNaN>>
    /\ UNCHANGED <<multiVars, sketchVars, arrVars, genVars, rngVars, cntVars, pageVars, gridVars, budVars, inlineVars>>

PipeNext == PipeBrightness \/ PipeContrast \/ PipeDither \/ PipeCollect

(***************************************************************************)
(* Source images.  A source is [gen, w, h, a, b, c]: p.createImage(20, 20) *)
(* is "blank", the fallback createSketch paints is "gradient", a decoded   *)
(* file is a "pattern" of the sample colours.                              *)
(***************************************************************************)
Source(gen, w, h, a, b, c) == [gen |-> gen, w |-> w, h |-> h, a |-> a, b |-> b, c |-> c]

\* p.createImage(20, 20), never painted
BlankSource == Source("blank", 20, 20, 0, 0, 0)

\* the fallback image painted in the failure callback of createSketch
GradientSource == Source("gradient", 120, 180, 0, 0, 0)

SrcPixel(src, x, y) ==
    IF src.gen = "blank" THEN <<0, 0, 0, 0>>
    ELSE IF src.gen = "gradient" THEN
        LET v == (x + y) % 255 IN <<v, 255 - v, 120, 255>>
    ELSE SampleColors[((src.a * x + src.b * y + src.c) % NColors) + 1]

\* no image (null)
NullSource == Source("null", 0, 0, 0, 0, 0)

NullImage == [w |-> 0, h |-> 0, px |-> [i \in {} |-> <<0, 0, 0, 0>>]]

\* images a successful load may deliver
SampleSources ==
    {Source("pattern", 2, 2, 1, 1, 0), Source("pattern", 2, 1, 0, 0, 4)}

(***************************************************************************)
(* Multi-layer sketch: options                                             *)
(***************************************************************************)
\* canvas width and height (opts.width, opts.height)
CanvasSize == 4

\* draw calls are followed up to this frame count
MaxFrames == 2

\* minCoverage is given in quarters (dyadic, so the products are exact)
CovDen == 2 * 2

Layers == {"bottom", "top", "side"}

LayerOrder == <<"bottom", "top", "side">>

\* sampled options <<maxPixels, minCoverage, shuffleEveryNFrames>>: maxPixels
\* in halves (so that fractions occur), minCoverage in quarters, both
\* possibly out of range
SampleOptions ==
    { <<-2, -1, 0>>, <<7, 3, 1>>, <<7, 5, 2>>, <<16, 1, 1>>, <<100000, 1, 0>> }

\* part_004 reads no minCoverage; part_003 alone has a side image
MultiConfigs(v) ==
    { [maxPixels2 |-> o[1],
       minCoverage4 |-> IF v = "part_004" THEN 0 ELSE o[2],
       shuffleEveryNFrames |-> o[3],
       rngSeed |-> 1337,
       pixelScale |-> 1,
       sideImagePath |-> s] :
        o \in SampleOptions, s \in (IF v = "part_003" THEN BOOLEAN ELSE {FALSE}) }

pixelScaleOf(cfg) == Max(1, cfg.pixelScale)

\* MAX_PIXELS = Math.max(0, Math.floor(vars.maxPixels ?? 50000))
MAX_PIXELS(cfg) == Max(0, cfg.maxPixels2 \div 2)

\* MIN_COVERAGE = Math.max(0, Math.min(1, vars.minCoverage)), in quarters
MIN_COVERAGE4(cfg) == Max(0, Min(CovDen, cfg.minCoverage4))

SHUFFLE_EVERY_N_FRAMES(cfg) == Max(0, cfg.shuffleEveryNFrames)

\* BRIGHTNESS_OFFSET and CONTRAST_FACTOR defaults of the multi-layer sketches
MultiBrightness == -20

MultiContrast == 20

\* VASE_SCALE, STILLLIFE_SCALE, SIDE_SCALE defaults, in percent
LayerScalePct(layer) ==
    IF layer = "bottom" THEN 50 ELSE IF layer = "top" THEN 75 ELSE 52

(***************************************************************************)
(* prepareImageWithAspectScaled: scale the source, centre it on a raster   *)
(* filled with the darkest colour.  p5's resize is taken as nearest-       *)
(* neighbour sampling, its copy as source-over with alpha 0 or 255.        *)
(***************************************************************************)
prepareImageWithAspectScaled(v, src, pct, finalW, finalH) ==
    LET wide  == src.w * finalH > finalW * src.h
        baseW == IF wide THEN finalW ELSE Max(1, (finalH * src.w) \div src.h)
        baseH == IF wide THEN Max(1, (finalW * src.h) \div src.w) ELSE finalH
        newW  == Min(Max(1, (baseW * pct) \div 100), finalW)
        newH  == Min(Max(1, (baseH * pct) \div 100), finalH)
        dx    == (finalW - newW) \div 2
        dy    == (finalH - newH) \div 2
        dark  == darkestColor(v)
        at(i) == LET x == (i % finalW) - dx
                     y == (i \div finalW) - dy
                 IN  IF x < 0 \/ x >= newW \/ y < 0 \/ y >= newH
                     THEN <<dark[1], dark[2], dark[3], 255>>
                     ELSE LET s == SrcPixel(src, (x * src.w) \div newW,
                                            (y * src.h) \div newH)
                          IN  IF s[4] = 0 THEN <<dark[1], dark[2], dark[3], 255>>
                              ELSE <<s[1], s[2], s[3], 255>>
    IN  [w |-> finalW, h |-> finalH, px |-> [i \in 0 .. (finalW * finalH - 1) |-> at(i)]]

\* the pipeline a layer goes through in rebuildImagesAndCaches
processLayer(v, src, pct, finalW, finalH) ==
    applyDither(v,
        adjustContrast(
            adjustBrightness(prepareImageWithAspectScaled(v, src, pct, finalW, finalH),
                             MultiBrightness),
            MultiContrast))

buildCache(v, img) == IF img = NullImage THEN <<>> ELSE collectIndices(v, img, 0)

(***************************************************************************)
(* Shuffling                                                               *)
(***************************************************************************)
\* the seed of the generator a layer's shuffle creates:
\*   bottom (RNG_SEED ^ 0x9e3779b9 ^ frameCount * 8191) >>> 0
\*   top    (RNG_SEED + frameCount * 10007) >>> 0
\*   side   (RNG_SEED ^ 0x517cc1b7 ^ frameCount * 12289) >>> 0
shuffleSeed(layer, rngSeed, frameCount) ==
    IF layer = "bottom" THEN
        Xor32(Xor32(ToUint32(rngSeed), Word(40503, 31161)), ToUint32(frameCount * 8191))
    ELSE IF layer = "top" THEN
        ToUint32(rngSeed + frameCount * 10007)
    ELSE
        Xor32(Xor32(ToUint32(rngSeed), Word(20860, 49591)), ToUint32(frameCount * 12289))

\* a swap that forgets the temporary: drawIdx[i] = drawIdx[j] only
overwriteOnly(seq, i, j) == [seq EXCEPT ![i] = seq[j]]

Swap(seq, i, j) == [seq EXCEPT ![i] = seq[j], ![j] = seq[i]]

\* for (i = i0; i > 0; i -= 1) { j = floor(rand() * (i + 1)); swap i, j }
\* on a 0-based array held as a sequence
RECURSIVE fisherYates(_, _, _)
fisherYates(seq, t, i) ==
    IF i <= 0 THEN seq
    ELSE LET t1 == mulberryAdvance(t)
             j  == FloorMul(mulberryOut(t1), i + 1)
         IN  fisherYates(Swap(seq, i + 1, j + 1), t1, i - 1)

\* shuffleDrawIdxBottom / Top / Side (frameCount) applied to the order seq
shuffleDrawIdx(layer, seq, rngSeed, frameCount) ==
    IF Len(seq) = 0 THEN seq
    ELSE fisherYates(seq, mulberry32(shuffleSeed(layer, rngSeed, frameCount)),
                     Len(seq) - 1)

(***************************************************************************)
(* Budgets of one draw call                                                *)
(***************************************************************************)
NoBudget == [bottom |-> 0, top |-> 0, side |-> 0]

\* Math.floor(totalDrawable * MIN_COVERAGE)
minBudget(totalDrawable, cfg) == (totalDrawable * MIN_COVERAGE4(cfg)) \div CovDen

\* two altered budgets, used to test that the budget properties below
\* depend on the cap and on the floor: no cap at all, and no coverage floor
totalBudgetUncapped(totalDrawable, cfg) == totalDrawable

totalBudgetNoFloor(totalDrawable, cfg) == Min(totalDrawable, MAX_PIXELS(cfg))

\* Math.min(totalDrawable, Math.max(MAX_PIXELS, minBudget))
totalBudget(totalDrawable, cfg) ==
    Min(totalDrawable, Max(MAX_PIXELS(cfg), minBudget(totalDrawable, cfg)))

\* the <<totalBudget, count, totalDrawable>>, totalDrawable up to 64, whose
\* double product totalBudget * (count / totalDrawable) lies just below the
\* whole number totalBudget * count / totalDrawable (22 * (30 / 44) is
\* 14.999999999999998); for every other triple up to 64 the floor of the
\* double product is the floor of the exact quotient
RoundsBelow ==
    { <<22, 15, 22>>, <<23, 13, 23>>, <<26, 15, 26>>, <<39, 31, 39>>,
      <<43, 23, 43>>, <<43, 31, 43>>, <<44, 15, 44>>, <<22, 30, 44>>,
      <<44, 30, 44>>, <<45, 13, 45>>, <<45, 26, 45>>, <<46, 13, 46>>,
      <<23, 26, 46>>, <<46, 26, 46>>, <<47, 3, 47>>, <<47, 6, 47>>,
      <<47, 12, 47>>, <<47, 24, 47>>, <<47, 31, 47>>, <<49, 1, 49>>,
      <<49, 2, 49>>, <<49, 4, 49>>, <<49, 8, 49>>, <<49, 16, 49>>,
      <<49, 27, 49>>, <<49, 32, 49>>, <<50, 29, 50>>, <<51, 31, 51>>,
      <<52, 15, 52>>, <<26, 30, 52>>, <<52, 30, 52>>, <<55, 7, 55>>,
      <<55, 14, 55>>, <<55, 15, 55>>, <<55, 28, 55>>, <<55, 29, 55>>,
      <<55, 30, 55>>, <<55, 31, 55>>, <<58, 31, 58>> }

\* Math.floor(totalBudget * (count / totalDrawable)), in doubles
shareFloor(budget, count, totalDrawable) ==
    ((budget * count) \div totalDrawable)
        - (IF <<budget, count, totalDrawable>> \in RoundsBelow THEN 1 ELSE 0)

\* part_003: three proportional shares, the leftover to bottom, top, side
layerBudgets3(cb, ct, cs, cfg) ==
    LET total == cb + ct + cs
        tb    == totalBudget(total, cfg)
    IN  IF ~(total > 0 /\ tb > 0) THEN NoBudget
        ELSE LET b0 == Min(cb, shareFloor(tb, cb, total))
                 t0 == Min(ct, shareFloor(tb, ct, total))
                 s0 == Min(cs, shareFloor(tb, cs, total))
                 remaining == tb - (b0 + t0 + s0)
             IN  IF ~(remaining > 0) THEN [bottom |-> b0, top |-> t0, side |-> s0]
                 ELSE LET addBottom == Min(remaining, Max(0, cb - b0))
                          remain2   == remaining - addBottom
                          addTop    == Min(remain2, Max(0, ct - t0))
                          remain3   == remain2 - addTop
                      IN  [bottom |-> b0 + addBottom, top |-> t0 + addTop,
                           side |-> s0 + Min(remain3, Max(0, cs - s0))]

\* part_002: bottom share, the rest to top, the leftover to bottom then top
layerBudgets2(cb, ct, cfg) ==
    LET total == cb + ct
        tb    == totalBudget(total, cfg)
    IN  IF ~(total > 0 /\ tb > 0) THEN NoBudget
        ELSE LET b0 == Min(cb, shareFloor(tb, cb, total))
                 t0 == Min(ct, tb - b0)
                 remaining == tb - (b0 + t0)
             IN  IF ~(remaining > 0) THEN [bottom |-> b0, top |-> t0, side |-> 0]
                 ELSE LET addBottom == Min(remaining, cb - b0)
                      IN  [bottom |-> b0 + addBottom,
                           top |-> t0 + Min(remaining - addBottom, ct - t0),
                           side |-> 0]

\* part_004: drawBottomAll draws every non-dark bottom pixel,
\* drawTopWithCapAndOffset the first Math.min(drawCountTop, MAX_PIXELS)
layerBudgets4(cb, ct, cfg) ==
    [bottom |-> cb, top |-> Min(ct, MAX_PIXELS(cfg)), side |-> 0]

layerBudgets(v, cb, ct, cs, cfg) ==
    IF v = "part_003" THEN layerBudgets3(cb, ct, cs, cfg)
    ELSE IF v = "part_002" THEN layerBudgets2(cb, ct, cfg)
    ELSE layerBudgets4(cb, ct, cfg)

(***************************************************************************)
(* Multi-layer sketch: setup, load callbacks, rebuild, draw                *)
(***************************************************************************)
\* what one draw call hands to the renderer: the budgets and the cells
NoCells == [kind |-> "none", budget |-> NoBudget,
            bottom |-> <<>>, top |-> <<>>, side |-> <<>>]

RequestedLayers(v, cfg) ==
    IF v = "part_003" /\ cfg.sideImagePath THEN {"bottom", "top", "side"}
    ELSE {"bottom", "top"}

\* layers that have a draw-index list which the sketch shuffles
ShuffledLayers(v) ==
    IF v = "part_003" THEN {"bottom", "top", "side"}
    ELSE IF v = "part_002" THEN {"bottom", "top"}
    ELSE {"top"}

MultiIdle ==
    /\ mVariant = "part_003"
    /\ mCfg = [maxPixels2 |-> 0, minCoverage4 |-> 0, shuffleEveryNFrames |-> 0,
               rngSeed |-> 0, pixelScale |-> 1, sideImagePath |-> FALSE]
    /\ mPending = {}
    /\ mRemaining = 0
    /\ mRaw = [l \in Layers |-> NullSource]
    /\ mImg = [l \in Layers |-> NullImage]
    /\ mDrawIdx = [l \in Layers |-> <<>>]
    /\ mDrawCount = [l \in Layers |-> 0]
    /\ mIsReady = FALSE
    /\ mFrame = MaxFrames
    /\ mDrawn = NoCells
    /\ mShuffledAt = 0
    /\ mBuilds = 0
    /\ mFailed = {}

\* the state when p.setup returns: the loads are requested, nothing is loaded
MultiStart ==
    /\ mVariant \in MultiVariants
    /\ mCfg \in MultiConfigs(mVariant)
    /\ mPending = RequestedLayers(mVariant, mCfg)
    /\ mRemaining = Cardinality(RequestedLayers(mVariant, mCfg))
    /\ mRaw = [l \in Layers |-> NullSource]
    /\ mImg = [l \in Layers |-> NullImage]
    /\ mDrawIdx = [l \in Layers |-> <<>>]
    /\ mDrawCount = [l \in Layers |-> 0]
    /\ mIsReady = FALSE
    /\ mFrame = 0
    /\ mDrawn = NoCells
    /\ mShuffledAt = 0
    /\ mBuilds = 0
    /\ mFailed = {}

\* rebuildImagesAndCaches with the raw images raw: the new imgX, drawIdxX,
\* drawCountX (before the closing shuffles)
rebuiltImages(v, cfg, raw) ==
    LET finalW == Max(1, CanvasSize \div pixelScaleOf(cfg))
        finalH == Max(1, CanvasSize \div pixelScaleOf(cfg))
    IN  [l \in Layers |->
            IF l = "side" /\ (v # "part_003" \/ raw[l] = NullSource) THEN NullImage
            ELSE processLayer(v, raw[l], LayerScalePct(l), finalW, finalH)]

rebuiltCaches(v, imgs) ==
    [l \in Layers |->
        IF l \in ShuffledLayers(v) THEN buildCache(v, imgs[l]) ELSE <<>>]

\* a done() that builds as soon as the top and bottom images are there
rebuildAtEveryCallback(raw) ==
    /\ mRemaining' = mRemaining - 1
    /\ IF raw["top"] = NullSource \/ raw["bottom"] = NullSource
       THEN UNCHANGED <<mImg, mDrawIdx, mDrawCount, mIsReady, mBuilds>>
       ELSE LET imgs   == rebuiltImages(mVariant, mCfg, raw)
                caches == rebuiltCaches(mVariant, imgs)
            IN  /\ mImg' = imgs
                /\ mDrawCount' = [l \in Layers |-> Len(caches[l])]
                /\ mDrawIdx' = [l \in Layers |->
                       shuffleDrawIdx(l, caches[l], mCfg.rngSeed, 0)]
                /\ mIsReady' = TRUE
                /\ mBuilds' = mBuilds + 1

\* a done() that sets the ready flag with every callback, built or not
readyAtAnyCallback(raw) ==
    /\ mRemaining' = mRemaining - 1
    /\ mIsReady' = TRUE
    /\ IF mRemaining - 1 > 0 \/ raw["top"] = NullSource \/ raw["bottom"] = NullSource
       THEN UNCHANGED <<mImg, mDrawIdx, mDrawCount, mBuilds>>
       ELSE LET imgs   == rebuiltImages(mVariant, mCfg, raw)
                caches == rebuiltCaches(mVariant, imgs)
            IN  /\ mImg' = imgs
                /\ mDrawCount' = [l \in Layers |-> Len(caches[l])]
                /\ mDrawIdx' = [l \in Layers |->
                       shuffleDrawIdx(l, caches[l], mCfg.rngSeed, 0)]
                /\ mBuilds' = mBuilds + 1

\* done(): the counter is decreased, the last callback rebuilds
MultiDone(raw) ==
    /\ mRemaining' = mRemaining - 1
    /\ IF mRemaining - 1 > 0 \/ raw["top"] = NullSource \/ raw["bottom"] = NullSource
       THEN UNCHANGED <<mImg, mDrawIdx, mDrawCount, mIsReady, mBuilds>>
       ELSE LET imgs   == rebuiltImages(mVariant, mCfg, raw)
                caches == rebuiltCaches(mVariant, imgs)
            IN  /\ mImg' = imgs
                /\ mDrawCount' = [l \in Layers |-> Len(caches[l])]
                /\ mDrawIdx' = [l \in Layers |->
                       shuffleDrawIdx(l, caches[l], mCfg.rngSeed, 0)]
                /\ mIsReady' = TRUE
                /\ mBuilds' = mBuilds + 1

\* success callback of p.loadImage for one layer
MultiLoaded(layer, src) ==
    /\ layer \in mPending
    /\ mPending' = mPending \ {layer}
    /\ mRaw' = [mRaw EXCEPT ![layer] = src]
    /\ MultiDone(mRaw')
    /\ UNCHANGED <<mVariant, mCfg, mFrame, mDrawn, mShuffledAt, mFailed>>
    /\ UNCHANGED <<pipeVars, sketchVars, arrVars, genVars, rngVars, cntVars, pageVars, gridVars, budVars, inlineVars>>

\* failure callback: bottom and top get p.createImage(20, 20), side gets null
MultiLoadFailed(layer) ==
    /\ layer \in mPending
    /\ mPending' = mPending \ {layer}
    /\ mRaw' = [mRaw EXCEPT ![layer] = IF layer = "side" THEN NullSource ELSE BlankSource]
    /\ mFailed' = mFailed \cup {layer}
    /\ MultiDone(mRaw')
    /\ UNCHANGED <<mVariant, mCfg, mFrame, mDrawn, mShuffledAt>>
    /\ UNCHANGED <<pipeVars, sketchVars, arrVars, genVars, rngVars, cntVars, pageVars, gridVars, budVars, inlineVars>>

\* p.draw, with p.frameCount already increased by p5
MultiDraw ==
    /\ mFrame < MaxFrames
    /\ mFrame' = mFrame + 1
    /\ IF ~mIsReady
       THEN /\ mDrawn' = [NoCells EXCEPT !.kind = "background"]
            /\ UNCHANGED <<mDrawIdx, mShuffledAt>>
       ELSE LET n   == SHUFFLE_EVERY_N_FRAMES(mCfg)
                re  == n > 0 /\ (mFrame' % n) = 0
                idx == [l \in Layers |->
                          IF re /\ l \in ShuffledLayers(mVariant)
                          THEN shuffleDrawIdx(l, mDrawIdx[l], mCfg.rngSeed, mFrame')
                          ELSE mDrawIdx[l]]
                cb  == IF mVariant = "part_004"
                       THEN Len(buildCache(mVariant, mImg["bottom"]))
                       ELSE mDrawCount["bottom"]
                bud == layerBudgets(mVariant, cb, mDrawCount["top"],
                                    mDrawCount["side"], mCfg)
                bot == IF mVariant = "part_004"
                       THEN buildCache(mVariant, mImg["bottom"])
                       ELSE idx["bottom"]
            IN  /\ mDrawIdx' = idx
                /\ mShuffledAt' = IF re THEN mFrame' ELSE mShuffledAt
                /\ mDrawn' = [kind |-> "cells",
                              budget |-> bud,
                              bottom |-> SubSeq(bot, 1, bud.bottom),
                              top |-> SubSeq(idx["top"], 1, bud.top),
                              side |-> SubSeq(idx["side"], 1, bud.side)]
    /\ UNCHANGED <<mVariant, mCfg, mPending, mRemaining, mRaw, mImg, mDrawCount,
                   mIsReady, mBuilds, mFailed>>
    /\ UNCHANGED <<pipeVars, sketchVars, arrVars, genVars, rngVars, cntVars, pageVars, gridVars, budVars, inlineVars>>

MultiNext ==
    \/ \E layer \in Layers, src \in SampleSources : MultiLoaded(layer, src)
    \/ \E layer \in Layers : MultiLoadFailed(layer)
    \/ MultiDraw

(***************************************************************************)
(* createSketch: options                                                   *)
(***************************************************************************)
SketchVariants == {"part_001", "createSketch"}

\* paths.length of loadFlowerSprites
NumSprites == 7

Sprites == 1 .. NumSprites

\* BRIGHTNESS_OFFSET and CONTRAST_FACTOR defaults of createSketch
SketchBrightness == -10

SketchContrast == 10

\* VASE_SCALE, in percent
VaseScalePct(v) == IF v = "part_001" THEN 45 ELSE 50

\* the placements the arrangement builder returns for the sketch's seed, as
\* <<cell x, cell y, depth in tenths, the sprite's random number in tenths>>
SamplePlacements ==
    << [x |-> 1, y |-> 1, depth |-> -10, u10 |-> 3],
       [x |-> 2, y |-> 1, depth |-> 0, u10 |-> 9],
       [x |-> 2, y |-> 2, depth |-> 8, u10 |-> 5] >>

\* sampled options <<maxPixels, shuffleEveryNFrames>>, maxPixels in halves
SketchOptions == { <<-3, 0>>, <<3, 1>>, <<100000, 0>> }

\* failing: the sprite files that cannot be loaded
SketchConfigs ==
    { [maxPixels2 |-> o[1], shuffleEveryNFrames |-> o[2], rngSeed |-> 1337,
       failing |-> f] :
        o \in SketchOptions, f \in {{}, {2, 7}, Sprites} }

\* MAX_PIXELS = Math.max(0, Math.floor(vars.maxPixels ?? 50000))
SketchMaxPixels(cfg) == Max(0, cfg.maxPixels2 \div 2)

(***************************************************************************)
(* createSketch: build                                                     *)
(***************************************************************************)
\* fitImageToSize: the source scaled by min(outW / w, outH / h) * VASE_SCALE
\* and centred on a cleared graphics.  The scale is N / D; a destination
\* pixel takes the source pixel under its centre (noSmooth).
fitImageToSize(v, src, outW, outH) ==
    LET byW  == outW * src.h <= outH * src.w
        N    == (IF byW THEN outW ELSE outH) * VaseScalePct(v)
        D    == (IF byW THEN src.w ELSE src.h) * 100
        lowX == outW * D - src.w * N
        lowY == outH * D - src.h * N
        at(i) == LET px == (2 * (i % outW) + 1) * D - lowX
                     py == (2 * (i \div outW) + 1) * D - lowY
                 IN  IF px < 0 \/ px >= 2 * src.w * N \/ py < 0 \/ py >= 2 * src.h * N
                     THEN <<0, 0, 0, 0>>
                     ELSE SrcPixel(src, Min(src.w - 1, px \div (2 * N)),
                                        Min(src.h - 1, py \div (2 * N)))
    IN  [w |-> outW, h |-> outH, px |-> [i \in 0 .. (outW * outH - 1) |-> at(i)]]

\* buildFlowerPlacements: the arrangement for spriteCount sprites, with
\* spriteIndex = Math.floor(rand() * Math.max(1, spriteCount))
buildFlowerPlacements(fitted, spriteCount) ==
    IF ~fitted THEN <<>>
    ELSE [i \in 1 .. Len(SamplePlacements) |->
             [x |-> SamplePlacements[i].x, y |-> SamplePlacements[i].y,
              depth |-> SamplePlacements[i].depth,
              spriteIndex |-> (SamplePlacements[i].u10 * Max(1, spriteCount)) \div 10]]

\* the sprite a placement is drawn with: flowerSprites[spriteIndex % length]
spriteOf(flower, sprites) == sprites[(flower.spriteIndex % Len(sprites)) + 1]

\* the loop over flowerPlacements of rebuildImageAndCache: what is drawn, in
\* drawing order, as <<index into flowerPlacements, sprite>>
RECURSIVE compositeFlowers(_, _, _)
compositeFlowers(placements, sprites, i) ==
    IF i > Len(placements) THEN <<>>
    ELSE (IF Len(sprites) = 0 THEN <<>>
          ELSE << <<i, spriteOf(placements[i], sprites)>> >>)
         \o compositeFlowers(placements, sprites, i + 1)

\* a loaded sprite file is a flat colour of the samples (sprite 5 is
\* transparent)
SpriteColor(k) == SampleColors[(k % NColors) + 1]

\* the composite after the sprite draws in draws: a sprite is taken to
\* cover the cell under its centre, later draws go over earlier ones
RECURSIVE paintFlowers(_, _, _, _)
paintFlowers(img, placements, draws, k) ==
    IF k > Len(draws) THEN img
    ELSE LET flower == placements[draws[k][1]]
             cell   == flower.x + flower.y * img.w
             colour == SpriteColor(draws[k][2])
         IN  paintFlowers(
                 IF colour[4] = 0 \/ cell \notin DOMAIN img.px THEN img
                 ELSE [img EXCEPT !.px[cell] = colour],
                 placements, draws, k + 1)

\* shuffleDrawIdxOnce: Fisher-Yates with mulberry32(RNG_SEED)
shuffleDrawIdxOnce(seq, rngSeed) ==
    IF Len(seq) = 0 THEN seq
    ELSE fisherYates(seq, mulberry32(ToUint32(rngSeed)), Len(seq) - 1)

\* the raster of rebuildImageAndCache: fit, composite, resize (pixelScale 1),
\* brightness, contrast, dither
sketchRaster(v, raw, placements, draws) ==
    applyDither(v,
        adjustContrast(
            adjustBrightness(
                paintFlowers(fitImageToSize(v, raw, CanvasSize, CanvasSize),
                             placements, draws, 1),
                SketchBrightness),
            SketchContrast))

\* rebuildImageAndCache with raw set: everything it assigns
rebuildImageAndCache(v, cfg, raw, sprites) ==
    LET placements == buildFlowerPlacements(TRUE, Len(sprites))
        draws      == compositeFlowers(placements, sprites, 1)
        img        == sketchRaster(v, raw, placements, draws)
    IN  [placements |-> placements,
         composited |-> draws,
         img        |-> img,
         drawIdx    |-> shuffleDrawIdxOnce(buildCache(v, img), cfg.rngSeed)]

(***************************************************************************)
(* createSketch: setup, load callbacks, draw                               *)
(***************************************************************************)
NothingDrawn == [kind |-> "none", cells |-> <<>>]

SketchIdle ==
    /\ sVariant = "part_001"
    /\ sCfg = [maxPixels2 |-> 0, shuffleEveryNFrames |-> 0, rngSeed |-> 0,
               failing |-> {}]
    /\ sImagePending = FALSE
    /\ sPendingSprites = {}
    /\ sRemaining = 0
    /\ sLoaded = {}
    /\ sFlowerSprites = <<>>
    /\ sRaw = NullSource
    /\ sFitted = FALSE
    /\ sPlacements = <<>>
    /\ sImg = NullImage
    /\ sDrawIdx = <<>>
    /\ sDrawCount = 0
    /\ sIsReady = FALSE
    /\ sDrawn = NothingDrawn
    /\ sBuilds = 0
    /\ sComposited = <<>>
    /\ sReshuffled = FALSE

\* the state when p.setup returns: all loads are requested, none has called back
SketchStart ==
    /\ sVariant \in SketchVariants
    /\ sCfg \in SketchConfigs
    /\ sImagePending = TRUE
    /\ sPendingSprites = Sprites
    /\ sRemaining = NumSprites
    /\ sLoaded = {}
    /\ sFlowerSprites = <<>>
    /\ sRaw = NullSource
    /\ sFitted = FALSE
    /\ sPlacements = <<>>
    /\ sImg = NullImage
    /\ sDrawIdx = <<>>
    /\ sDrawCount = 0
    /\ sIsReady = FALSE
    /\ sDrawn = NothingDrawn
    /\ sBuilds = 0
    /\ sComposited = <<>>
    /\ sReshuffled = FALSE

\* the assignments of one run of rebuildImageAndCache, b its results
SketchRebuilt(b) ==
    /\ sFitted' = TRUE
    /\ sPlacements' = b.placements
    /\ sComposited' = b.composited
    /\ sImg' = b.img
    /\ sDrawIdx' = b.drawIdx
    /\ sDrawCount' = Len(b.drawIdx)
    /\ sIsReady' = TRUE
    /\ sBuilds' = sBuilds + 1

\* a sprite set that keeps a slot for every path, used to test the handling
\* of failed loads
keepEveryPath(loaded) == [i \in 1 .. NumSprites |-> i]

\* loaded.filter(item => item !== null): the loaded sprites by index
filterLoaded(loaded) ==
    [i \in 1 .. Cardinality(loaded) |->
        CHOOSE k \in loaded : Cardinality({j \in loaded : j < k}) = i - 1]

\* a done() that leaves the raster alone when the image is already there
doneWithoutRebuild(loaded) ==
    /\ sRemaining' = sRemaining - 1
    /\ IF sRemaining - 1 > 0
       THEN UNCHANGED <<sFlowerSprites, sFitted, sPlacements, sComposited, sImg,
                        sDrawIdx, sDrawCount, sIsReady, sBuilds>>
       ELSE /\ sFlowerSprites' = filterLoaded(loaded)
            /\ sPlacements' = buildFlowerPlacements(sFitted, Cardinality(loaded))
            /\ UNCHANGED <<sFitted, sComposited, sImg, sDrawIdx, sDrawCount,
                           sIsReady, sBuilds>>

\* done() of loadFlowerSprites, loaded being the array after this callback
SketchDone(loaded) ==
    /\ sRemaining' = sRemaining - 1
    /\ IF sRemaining - 1 > 0
       THEN UNCHANGED <<sFlowerSprites, sFitted, sPlacements, sComposited, sImg,
                        sDrawIdx, sDrawCount, sIsReady, sBuilds>>
       ELSE /\ sFlowerSprites' = filterLoaded(loaded)
            /\ IF sRaw = NullSource
               THEN /\ sPlacements' =
                           buildFlowerPlacements(sFitted, Cardinality(loaded))
                    /\ UNCHANGED <<sFitted, sComposited, sImg, sDrawIdx,
                                   sDrawCount, sIsReady, sBuilds>>
               ELSE SketchRebuilt(
                        rebuildImageAndCache(sVariant, sCfg, sRaw,
                                             filterLoaded(loaded)))

\* success callback of a sprite's p.loadImage
SketchSpriteLoaded(i) ==
    /\ i \in sPendingSprites
    /\ i \notin sCfg.failing
    /\ sPendingSprites' = sPendingSprites \ {i}
    /\ sLoaded' = sLoaded \cup {i}
    /\ SketchDone(sLoaded \cup {i})
    /\ UNCHANGED <<sVariant, sCfg, sImagePending, sRaw, sDrawn, sReshuffled>>
    /\ UNCHANGED <<pipeVars, multiVars, arrVars, genVars, rngVars, cntVars, pageVars, gridVars, budVars, inlineVars>>

\* failure callback of a sprite's p.loadImage
SketchSpriteFailed(i) ==
    /\ i \in sPendingSprites
    /\ i \in sCfg.failing
    /\ sPendingSprites' = sPendingSprites \ {i}
    /\ SketchDone(sLoaded)
    /\ UNCHANGED <<sVariant, sCfg, sImagePending, sLoaded, sRaw, sDrawn,
                   sReshuffled>>
    /\ UNCHANGED <<pipeVars, multiVars, arrVars, genVars, rngVars, cntVars, pageVars, gridVars, budVars, inlineVars>>

\* the callbacks of the source image's p.loadImage: raw is set to the loaded
\* image, or to the painted fallback, and the build runs
SketchImageCallback(src) ==
    /\ sImagePending
    /\ sImagePending' = FALSE
    /\ sRaw' = src
    /\ SketchRebuilt(rebuildImageAndCache(sVariant, sCfg, src, sFlowerSprites))
    /\ UNCHANGED <<sVariant, sCfg, sPendingSprites, sRemaining, sLoaded,
                   sFlowerSprites, sDrawn, sReshuffled>>
    /\ UNCHANGED <<pipeVars, multiVars, arrVars, genVars, rngVars, cntVars, pageVars, gridVars, budVars, inlineVars>>

SketchImageLoaded == \E src \in SampleSources : SketchImageCallback(src)

SketchImageFailed == SketchImageCallback(GradientSource)

\* a draw that ignores the budget, used to test the budget property
toDrawAll(drawCount, maxPixels) == drawCount

\* Math.min(drawCount, MAX_PIXELS)
toDraw(drawCount, maxPixels) == Min(drawCount, maxPixels)

\* p.draw: it reads drawIdx and never shuffles it
SketchDraw ==
    /\ sReshuffled' = FALSE
    /\ sDrawn' =
           IF ~sIsReady \/ sImg = NullImage
           THEN [kind |-> "background", cells |-> <<>>]
           ELSE [kind |-> "cells",
                 cells |-> SubSeq(sDrawIdx, 1,
                                  toDraw(sDrawCount, SketchMaxPixels(sCfg)))]
    /\ UNCHANGED <<sVariant, sCfg, sImagePending, sPendingSprites, sRemaining,
                   sLoaded, sFlowerSprites, sRaw, sFitted, sPlacements, sImg,
                   sDrawIdx, sDrawCount, sIsReady, sBuilds, sComposited>>
    /\ UNCHANGED <<pipeVars, multiVars, arrVars, genVars, rngVars, cntVars, pageVars, gridVars, budVars, inlineVars>>

SketchNext ==
    \/ \E i \in Sprites : SketchSpriteLoaded(i)
    \/ \E i \in Sprites : SketchSpriteFailed(i)
    \/ SketchImageLoaded
    \/ SketchImageFailed
    \/ SketchDraw

(***************************************************************************)
(* generateFlowerArrangement                                               *)
(*                                                                         *)
(* Lengths are in tenths of a pixel and the centre of the outer guide is   *)
(* the origin.  Cosines, sines and depths are in tenths.                   *)
(***************************************************************************)
\* The options of a call together with what generateFlowerArrangement
\* derives from them before the rings are built, for bouquetScale,
\* bouquetAspect, bouquetLift and innerLift 0, bouquetDispersion and
\* frontViewRatio at their lower clamps and the six leading random numbers
\* 0.5: outerWidth is the floor 110 and outerHeight the floor 28, density
\* 0.76, outerShare 0.5888, innerScale 0.6824, tangentJitterFactor 0.268,
\* verticalJitter 4.44; minGap 21.41 and jitter 2.57 .. 13.36 for six
\* flowers, minGap 19.82 and jitter 2.38 .. 12.36 for seven.
ArrConfigs ==
    { [flowerCount |-> 6, sharePct |-> 59, radiusX |-> 550, radiusY |-> 140,
       innerScalePct |-> 68, innerLift |-> 0, minGap |-> 214,
       jitterMin |-> 26, jitterMax |-> 134, verticalJitter |-> 44,
       tangentPct |-> 27, spriteCount |-> 7],
      [flowerCount |-> 7, sharePct |-> 59, radiusX |-> 550, radiusY |-> 140,
       innerScalePct |-> 68, innerLift |-> 0, minGap |-> 198,
       jitterMin |-> 24, jitterMax |-> 124, verticalJitter |-> 44,
       tangentPct |-> 27, spriteCount |-> 2] }

NoArrConfig ==
    [flowerCount |-> 0, sharePct |-> 0, radiusX |-> 0, radiusY |-> 0,
     innerScalePct |-> 0, innerLift |-> 0, minGap |-> 0,
     jitterMin |-> 0, jitterMax |-> 0, verticalJitter |-> 0,
     tangentPct |-> 0, spriteCount |-> 0]

\* Math.round(n / d) for n >= 0
Round(n, d) == (2 * n + d) \div (2 * d)

\* clamp(Math.round(flowerCount * outerShare), 4, flowerCount - 2)
outerCountOf(cfg) ==
    Max(4, Min(cfg.flowerCount - 2, Round(cfg.flowerCount * cfg.sharePct, 100)))

\* Math.max(2, flowerCount - outerCount)
innerCountOf(cfg) == Max(2, cfg.flowerCount - outerCountOf(cfg))

outerGuide(cfg) ==
    [centerX |-> 0, centerY |-> 0, radiusX |-> cfg.radiusX, radiusY |-> cfg.radiusY]

innerGuide(cfg) ==
    [centerX |-> outerGuide(cfg).centerX,
     centerY |-> outerGuide(cfg).centerY - Max(0, cfg.innerLift),
     radiusX |-> (outerGuide(cfg).radiusX * cfg.innerScalePct) \div 100,
     radiusY |-> (outerGuide(cfg).radiusY * cfg.innerScalePct) \div 100]

\* ringOptions; minGap25 is minGap in 1/25 of a tenth
ringOptions(cfg) ==
    [minGap25 |-> cfg.minGap * 25, jitterMin |-> cfg.jitterMin,
     jitterMax |-> cfg.jitterMax, verticalJitter |-> cfg.verticalJitter,
     tangentPct |-> cfg.tangentPct, spriteCount |-> cfg.spriteCount]

\* the options of the inner ring: minGap: Math.max(2, minGap * 0.88),
\* jitterMin * 0.6, jitterMax * 0.76, verticalJitter * 0.72
innerOptions(cfg) ==
    [minGap25 |-> Max(2 * 10 * 25, cfg.minGap * 22),
     jitterMin |-> (cfg.jitterMin * 6) \div 10,
     jitterMax |-> (cfg.jitterMax * 76) \div 100,
     verticalJitter |-> (cfg.verticalJitter * 72) \div 100,
     tangentPct |-> cfg.tangentPct, spriteCount |-> cfg.spriteCount]

\* What the random numbers of one attempt amount to: the direction of
\* pickAngle (cos10, sin10), the t of the two sampleNearWithFarTail calls in
\* tenths (jt, vt), the jitter sign, (rand() - 0.5) * 2 in percent for the
\* tangent and the vertical offset (tanPct, yPct), and the sprite's number
\* in tenths (u10).
SampleDraws ==
    << [cos10 |-> 10, sin10 |-> 0,   jt |-> 0, sign |-> 1,  tanPct |-> 0,  vt |-> 0, yPct |-> 0,   u10 |-> 5],
       [cos10 |-> 0,  sin10 |-> 10,  jt |-> 0, sign |-> 1,  tanPct |-> 0,  vt |-> 0, yPct |-> 0,   u10 |-> 0],
       [cos10 |-> 0,  sin10 |-> -10, jt |-> 0, sign |-> 1,  tanPct |-> 0,  vt |-> 0, yPct |-> 0,   u10 |-> 9],
       [cos10 |-> -6, sin10 |-> 8,   jt |-> 0, sign |-> 1,  tanPct |-> 0,  vt |-> 0, yPct |-> 0,   u10 |-> 3],
       [cos10 |-> 10, sin10 |-> 0,   jt |-> 0, sign |-> -1, tanPct |-> 0,  vt |-> 0, yPct |-> 0,   u10 |-> 7],
       [cos10 |-> -6, sin10 |-> -8,  jt |-> 0, sign |-> 1,  tanPct |-> 0,  vt |-> 0, yPct |-> 0,   u10 |-> 2],
       [cos10 |-> 0,  sin10 |-> 10,  jt |-> 5, sign |-> -1, tanPct |-> 50, vt |-> 5, yPct |-> -50, u10 |-> 9] >>

Draws == {SampleDraws[i] : i \in DOMAIN SampleDraws}

\* the longest period of the sampled random streams
MaxPeriod == 2

\* the random streams: every periodic stream of attempts up to MaxPeriod,
\* and the stream that runs through the sample draws
SampleStreams ==
    UNION {[1 .. n -> Draws] : n \in 1 .. MaxPeriod} \cup {SampleDraws}

\* min + span * t
sampleNearWithFarTail(min, max, t10) ==
    IF Max(0, max - min) <= 0 THEN min
    ELSE min + (Max(0, max - min) * t10) \div 10

radialJitter(options, draw) ==
    sampleNearWithFarTail(options.jitterMin, options.jitterMax, draw.jt) * draw.sign

\* (rand() - 0.5) * 2 * tangentJitter, tangentJitter = minGap * tangentJitterFactor
tangentOffset(options, draw) ==
    (draw.tanPct * ((options.minGap25 * options.tangentPct) \div 2500)) \div 100

\* (rand() - 0.5) * 2 * verticalAmp
yOffset(options, draw) ==
    (draw.yPct * sampleNearWithFarTail((options.verticalJitter * 2) \div 10,
                                       (options.verticalJitter * 145) \div 100,
                                       draw.vt)) \div 100

\* the candidate point of one attempt of buildRingPoints
candidate(guide, options, draw) ==
    [x |-> guide.centerX + (draw.cos10 * guide.radiusX) \div 10
              + (draw.cos10 * radialJitter(options, draw)) \div 10
              + ((0 - draw.sin10) * tangentOffset(options, draw)) \div 10,
     y |-> guide.centerY + (draw.sin10 * guide.radiusY) \div 10
              + (draw.sin10 * radialJitter(options, draw)) \div 10
              + (draw.cos10 * tangentOffset(options, draw) * 2) \div 100
              + yOffset(options, draw),
     depth |-> draw.sin10,
     spriteIndex |-> (draw.u10 * Max(1, options.spriteCount)) \div 10]

distanceSquared(ax, ay, bx, by) == (ax - bx) * (ax - bx) + (ay - by) * (ay - by)

\* distanceSquared(...) < minGapSq against some point of list
tooClose(list, pt, minGap25) ==
    \E i \in 1 .. Len(list) :
        distanceSquared(pt.x, pt.y, list[i].x, list[i].y) * 625 < minGap25 * minGap25

\* variants of the test that leave a loop out or reject everything, used to
\* test the properties of the arrangement
blockedByRingOnly(existing, points, pt, minGap25) == tooClose(points, pt, minGap25)

blockedAlways(existing, points, pt, minGap25) == TRUE

\* the two loops that set blocked
blocked(existing, points, pt, minGap25) ==
    tooClose(existing, pt, minGap25) \/ tooClose(points, pt, minGap25)

\* the body of the attempt loop: points afterwards
ringAttempt(existing, points, guide, options, draw) ==
    IF blocked(existing, points, candidate(guide, options, draw), options.minGap25)
    THEN points
    ELSE Append(points, candidate(guide, options, draw))

\* a loop that only stops when the ring is full
untilFull(points, count, attempt) == Len(points) < count

\* attempt < attempts && points.length < count
ringContinues(points, count, attempt) ==
    attempt < count * 140 /\ Len(points) < count

RECURSIVE insertByDepth(_, _)
insertByDepth(sorted, pt) ==
    IF sorted = <<>> THEN <<pt>>
    ELSE IF Head(sorted).depth <= pt.depth
         THEN <<Head(sorted)>> \o insertByDepth(Tail(sorted), pt)
         ELSE <<pt>> \o sorted

RECURSIVE sortFrom(_, _, _)
sortFrom(sorted, all, i) ==
    IF i > Len(all) THEN sorted
    ELSE sortFrom(insertByDepth(sorted, all[i]), all, i + 1)

\* the list left as pushed, used to test the ordering property
leftAsPushed(all) == all

\* all.sort((a, b) => a.depth - b.depth), a stable sort
sortByDepth(all) == sortFrom(<<>>, all, 1)

ArrIdle ==
    /\ aCfg = NoArrConfig
    /\ aStream = <<>>
    /\ aUsed = 0
    /\ aRing = "idle"
    /\ aAttempt = 0
    /\ aOuter = <<>>
    /\ aInner = <<>>
    /\ aPoints = <<>>
    /\ aDrawn = <<>>

\* generateFlowerArrangement about to build the outer ring
ArrStart ==
    /\ aCfg \in ArrConfigs
    /\ aStream \in SampleStreams
    /\ aUsed = 0
    /\ aRing = "outer"
    /\ aAttempt = 0
    /\ aOuter = <<>>
    /\ aInner = <<>>
    /\ aPoints = <<>>
    /\ aDrawn = <<>>

\* the draw the stream gives the next attempt
nextDraw == aStream[(aUsed % Len(aStream)) + 1]

\* an attempt of the outer ring; when the loop ends with it, the ring is
\* pushed to all and the inner ring starts
ArrOuterStep(points) ==
    /\ aOuter' = points
    /\ IF ringContinues(points, outerCountOf(aCfg), aAttempt + 1)
       THEN aAttempt' = aAttempt + 1 /\ aRing' = "outer"
       ELSE aAttempt' = 0 /\ aRing' = "inner"

ArrOuterAttempt ==
    /\ aRing = "outer"
    /\ ArrOuterStep(ringAttempt(<<>>, aOuter, outerGuide(aCfg), ringOptions(aCfg), nextDraw))
    /\ aUsed' = aUsed + 1
    /\ UNCHANGED <<aCfg, aStream, aInner, aPoints, aDrawn>>
    /\ UNCHANGED <<pipeVars, multiVars, sketchVars, genVars, rngVars, cntVars, pageVars, gridVars, budVars, inlineVars>>

\* an attempt of the inner ring; when the loop ends with it, the ring is
\* pushed to all, all is sorted and returned
ArrInnerStep(points) ==
    /\ aInner' = points
    /\ IF ringContinues(points, innerCountOf(aCfg), aAttempt + 1)
       THEN aAttempt' = aAttempt + 1 /\ aRing' = "inner" /\ aPoints' = aPoints
       ELSE aAttempt' = 0 /\ aRing' = "done" /\ aPoints' = sortByDepth(aOuter \o points)

ArrInnerAttempt ==
    /\ aRing = "inner"
    /\ ArrInnerStep(ringAttempt(aOuter, aInner, innerGuide(aCfg), innerOptions(aCfg), nextDraw))
    /\ aUsed' = aUsed + 1
    /\ UNCHANGED <<aCfg, aStream, aOuter, aDrawn>>
    /\ UNCHANGED <<pipeVars, multiVars, sketchVars, genVars, rngVars, cntVars, pageVars, gridVars, budVars, inlineVars>>

\* the loop over flowerPlacements of rebuildImageAndCache on the returned list
ArrComposite ==
    /\ aRing = "done"
    /\ aDrawn' = compositeFlowers(aPoints, [k \in 1 .. aCfg.spriteCount |-> k], 1)
    /\ aRing' = "composited"
    /\ UNCHANGED <<aCfg, aStream, aUsed, aAttempt, aOuter, aInner, aPoints>>
    /\ UNCHANGED <<pipeVars, multiVars, sketchVars, genVars, rngVars, cntVars, pageVars, gridVars, budVars, inlineVars>>

ArrNext ==
    \/ ArrOuterAttempt
    \/ ArrInnerAttempt
    \/ ArrComposite

(***************************************************************************)
(* The preset generators: generateDirectionOneSeededVariables and          *)
(* createSeededPresets.  Fractional values are in thousandths, rounded     *)
(* down.                                                                   *)
(***************************************************************************)
\* Math.floor(rand() * m) for the returned 32-bit value u and 0 <= m < 2^23
FloorMulWide(u, m) ==
    (u.hi * (m \div 256)
       + ((u.hi * (m % 256)
             + ((u.lo * (m \div 256) + ((u.lo * (m % 256)) \div 256)) \div 256))
          \div 256))
    \div 256

\* the 32-bit values of the next k calls of a generator in state t
RECURSIVE drawsFrom(_, _)
drawsFrom(t, k) ==
    IF k = 0 THEN <<>>
    ELSE <<mulberryOut(mulberryAdvance(t))>> \o drawsFrom(mulberryAdvance(t), k - 1)

\* toInt(randomRange(rand, min, max)) for integers min <= max
intRange(u, range) == range.min + FloorMulWide(u, range.max - range.min)

\* toInt(randomRange(rand, pixelScale.min, pixelScale.max + 0.999))
pixelScaleRange(u, range) ==
    range.min + (FloorMulWide(u, (range.max - range.min) * 1000 + 999) \div 1000)

\* randomRange(rand, min, max), min and max in thousandths
floatRange(u, range) == range.min + FloorMulWide(u, range.max - range.min)

\* the defaults handed to getRange
DefaultRanges ==
    [pixelScale        |-> [min |-> 1, max |-> 2],
     maxPixels         |-> [min |-> 30000, max |-> 100000],
     brightnessOffset  |-> [min |-> -68, max |-> -48],
     contrastFactor    |-> [min |-> 6, max |-> 36],
     flowerCount       |-> [min |-> 32, max |-> 50],
     bouquetScale      |-> [min |-> 250, max |-> 800],
     bouquetAspect     |-> [min |-> 200, max |-> 900],
     bouquetLift       |-> [min |-> 62, max |-> 92],
     bouquetInnerLift  |-> [min |-> 96, max |-> 132],
     bouquetDispersion |-> [min |-> 420, max |-> 900],
     frontViewRatio    |-> [min |-> 160, max |-> 280],
     vaseScale         |-> [min |-> 340, max |-> 500]]

NoOverrides == [k \in {} |-> 0]

\* getRange(ranges[key], defaults)
getRange(ranges, key) ==
    IF key \in DOMAIN ranges
    THEN [min |-> ranges[key].min, max |-> ranges[key].max]
    ELSE DefaultRanges[key]

\* the object literal of generateDirectionOneSeededVariables before
\* ...fixed, from the 13 draws d of the item's generator
sampledVariables(d, ranges) ==
    [pixelScale            |-> pixelScaleRange(d[1], getRange(ranges, "pixelScale")),
     maxPixels             |-> intRange(d[2], getRange(ranges, "maxPixels")),
     brightnessOffset      |-> intRange(d[3], getRange(ranges, "brightnessOffset")),
     contrastFactor        |-> intRange(d[4], getRange(ranges, "contrastFactor")),
     drawAsRects           |-> TRUE,
     rngSeed               |-> intRange(d[5], [min |-> 1, max |-> 99999]),
     flowerCount           |-> intRange(d[6], getRange(ranges, "flowerCount")),
     bouquetScale          |-> floatRange(d[7], getRange(ranges, "bouquetScale")),
     bouquetAspect         |-> floatRange(d[8], getRange(ranges, "bouquetAspect")),
     bouquetLift           |-> intRange(d[9], getRange(ranges, "bouquetLift")),
     bouquetInnerLift      |-> intRange(d[10], getRange(ranges, "bouquetInnerLift")),
     bouquetDispersion     |-> floatRange(d[11], getRange(ranges, "bouquetDispersion")),
     frontViewRatio        |-> floatRange(d[12], getRange(ranges, "frontViewRatio")),
     showArrangementGuides |-> FALSE,
     vaseScale             |-> floatRange(d[13], getRange(ranges, "vaseScale"))]

\* a spread that lets the sampled values win, used to test the overrides
sampledOverFixed(sampled, fixed) ==
    [k \in DOMAIN sampled \cup DOMAIN fixed |->
        IF k \in DOMAIN sampled THEN sampled[k] ELSE fixed[k]]

\* { ...sampled, ...fixed }
spreadFixed(sampled, fixed) ==
    [k \in DOMAIN sampled \cup DOMAIN fixed |->
        IF k \in DOMAIN fixed THEN fixed[k] ELSE sampled[k]]

\* n times 1013904223 = 0x3c6ef35f, modulo 2^32
RECURSIVE timesLcg(_)
timesLcg(n) ==
    IF n = 0 THEN Word(0, 0) ELSE Add32(timesLcg(n - 1), Word(15470, 62303))

\* one seed for all items, used to test the per-item seeds
itemSeedShared(seed, i) == ToUint32(seed)

\* (seed + i * 1013904223) >>> 0
itemSeed(seed, i) == Add32(ToUint32(seed), timesLcg(i))

\* Math.max(1, Math.floor(config.presetCount))
presetCountOf(count) == Max(1, count)

\* generateDirectionOneSeededVariables: the bundles, each with the seed of
\* the generator it was drawn from and the number of draws that generator
\* had made before
generateDirectionOneSeededVariables(seed, count, ranges, fixed) ==
    [n \in 1 .. presetCountOf(count) |->
        [variables |-> spreadFixed(
                           sampledVariables(
                               drawsFrom(mulberry32(itemSeed(seed, n - 1)), 13),
                               ranges),
                           fixed),
         seed |-> itemSeed(seed, n - 1),
         skipped |-> 0]]

\* the draws of createSeededPresets for one item
presetVariables(d) ==
    [pixelScale          |-> 2,
     maxPixels           |-> intRange(d[1], [min |-> 5000, max |-> 15000]),
     brightnessOffset    |-> intRange(d[2], [min |-> -24, max |-> 0]),
     contrastFactor      |-> intRange(d[3], [min |-> 0, max |-> 40]),
     drawAsRects         |-> d[4] # Word(0, 0),
     shuffleEveryNFrames |-> intRange(d[5], [min |-> 0, max |-> 60]),
     rngSeed             |-> intRange(d[6], [min |-> 1, max |-> 99999])]

\* createSeededPresets: Array.from({ length: count }, ...), all items drawn
\* in turn from mulberry32(seed)
createSeededPresets(seed, count) ==
    [n \in 1 .. Max(0, count) |->
        [variables |-> presetVariables(
                           SubSeq(drawsFrom(mulberry32(ToUint32(seed)), 6 * n),
                                  6 * n - 5, 6 * n)),
         name |-> <<seed, n>>,
         seed |-> ToUint32(seed),
         skipped |-> 6 * (n - 1)]]

\* the largest requested count
MaxPresets == 3

SampleSeeds == {20260209, 2147483647}

SampleRanges ==
    { NoOverrides,
      [maxPixels |-> [min |-> 10, max |-> 12], flowerCount |-> [min |-> 6, max |-> 6]] }

SampleFixed ==
    { NoOverrides,
      [maxPixels |-> 777],
      [pixelScale |-> 3, drawAsRects |-> FALSE, shuffleEveryNFrames |-> 4] }

Generators == {"generateDirectionOneSeededVariables", "createSeededPresets"}

\* a call of the generator of the state with the given count and overrides
generatorCall(count, fixed) ==
    IF gGenerator = "createSeededPresets"
    THEN createSeededPresets(gSeed, count)
    ELSE generateDirectionOneSeededVariables(gSeed, count, gRanges, fixed)

NotCalled == [called |-> FALSE, count |-> 0, items |-> <<>>]

PresetIdle ==
    /\ gGenerator = "none"
    /\ gSeed = 0
    /\ gCount = 0
    /\ gRanges = NoOverrides
    /\ gFixed = NoOverrides
    /\ gFirst = NotCalled
    /\ gSecond = NotCalled
    /\ gOther = NotCalled
    /\ gPlain = NotCalled

\* the inputs of a call, nothing generated yet
PresetStart ==
    /\ gGenerator \in Generators
    /\ gSeed \in SampleSeeds
    /\ gCount \in 0 .. MaxPresets
    /\ gRanges \in (IF gGenerator = "createSeededPresets" THEN {NoOverrides} ELSE SampleRanges)
    /\ gFixed \in (IF gGenerator = "createSeededPresets" THEN {NoOverrides} ELSE SampleFixed)
    /\ gFirst = NotCalled
    /\ gSecond = NotCalled
    /\ gOther = NotCalled
    /\ gPlain = NotCalled

\* the call
PresetCall ==
    /\ ~gFirst.called
    /\ gFirst' = [called |-> TRUE, count |-> gCount, items |-> generatorCall(gCount, gFixed)]
    /\ UNCHANGED <<gGenerator, gSeed, gCount, gRanges, gFixed, gSecond, gOther, gPlain>>
    /\ UNCHANGED <<pipeVars, multiVars, sketchVars, arrVars, rngVars, cntVars, pageVars, gridVars, budVars, inlineVars>>

\* a second call with equal inputs
PresetCallAgain ==
    /\ gFirst.called
    /\ gSecond' = [called |-> TRUE, count |-> gCount, items |-> generatorCall(gCount, gFixed)]
    /\ UNCHANGED <<gGenerator, gSeed, gCount, gRanges, gFixed, gFirst, gOther, gPlain>>
    /\ UNCHANGED <<pipeVars, multiVars, sketchVars, arrVars, rngVars, cntVars, pageVars, gridVars, budVars, inlineVars>>

\* a call with another count and otherwise equal inputs
PresetCallOtherCount(count) ==
    /\ gFirst.called
    /\ count # gCount
    /\ gOther' = [called |-> TRUE, count |-> count, items |-> generatorCall(count, gFixed)]
    /\ UNCHANGED <<gGenerator, gSeed, gCount, gRanges, gFixed, gFirst, gSecond, gPlain>>
    /\ UNCHANGED <<pipeVars, multiVars, sketchVars, arrVars, rngVars, cntVars, pageVars, gridVars, budVars, inlineVars>>

\* a call without fixed overrides and otherwise equal inputs
PresetCallUnfixed ==
    /\ gFirst.called
    /\ gPlain' = [called |-> TRUE, count |-> gCount, items |-> generatorCall(gCount, NoOverrides)]
    /\ UNCHANGED <<gGenerator, gSeed, gCount, gRanges, gFixed, gFirst, gSecond, gOther>>
    /\ UNCHANGED <<pipeVars, multiVars, sketchVars, arrVars, rngVars, cntVars, pageVars, gridVars, budVars, inlineVars>>

PresetNext ==
    \/ PresetCall
    \/ PresetCallAgain
    \/ \E count \in 0 .. MaxPresets : PresetCallOtherCount(count)
    \/ PresetCallUnfixed

(***************************************************************************)
(* One generator made by mulberry32(seed) and the calls of it              *)
(***************************************************************************)
\* the largest number of calls followed
MaxCalls == 40

RngSeeds == {0, 1337, 20260209, 2147483647}

RngIdle ==
    /\ rSeed = 0
    /\ rState = [hi |-> 0, lo |-> 0, ov |-> 0]
    /\ rCalls = 0
    /\ rOut = Word(0, 0)
    /\ rLive = FALSE

\* mulberry32(seed) has returned the closure
RngStart ==
    /\ rSeed \in RngSeeds
    /\ rState = mulberry32(ToUint32(rSeed))
    /\ rCalls = 0
    /\ rOut = Word(0, 0)
    /\ rLive = TRUE

\* a call of the closure
RngCall ==
    /\ rLive
    /\ rCalls < MaxCalls
    /\ rState' = mulberryAdvance(rState)
    /\ rOut' = mulberryOut(mulberryAdvance(rState))
    /\ rCalls' = rCalls + 1
    /\ UNCHANGED <<rSeed, rLive>>
    /\ UNCHANGED <<pipeVars, multiVars, sketchVars, arrVars, genVars, cntVars, pageVars, gridVars, budVars, inlineVars>>

RngNext == RngCall

(***************************************************************************)
(* generateFlowerArrangement: the counts asked of the two rings            *)
(***************************************************************************)
\* options.flowerCount in tenths: negative, zero, fractional, about the
\* floor of six, the defaults 37 and 42, and large
SampleFlowerCounts == {-35, -10, 0, 5, 59, 60, 65, 70, 79, 100, 370, 420, 615}

\* outerShare = clamp(0.62 + (0.5 - density) * 0.12 + noise, 0.54, 0.78) in
\* hundredths: density is within 0.3 .. 0.9 and noise within -0.04 .. 0.04
SampleShares == 54 .. 68

\* a count taken as given, without the floor of six
flooredOnly(raw10) == raw10 \div 10

\* Math.max(6, Math.floor(options.flowerCount))
effectiveFlowerCount(raw10) == Max(6, raw10 \div 10)

CountIdle ==
    /\ cRaw = 0
    /\ cShare = 0
    /\ cStage = "idle"
    /\ cEff = 0
    /\ cOuter = 0
    /\ cInner = 0

\* generateFlowerArrangement is called
CountStart ==
    /\ cRaw \in SampleFlowerCounts
    /\ cShare \in SampleShares
    /\ cStage = "called"
    /\ cEff = 0
    /\ cOuter = 0
    /\ cInner = 0

\* flowerCount, outerCount and innerCount are computed
CountDerive ==
    /\ cStage = "called"
    /\ cStage' = "derived"
    /\ cEff' = effectiveFlowerCount(cRaw)
    /\ cOuter' = outerCountOf([flowerCount |-> effectiveFlowerCount(cRaw),
                               sharePct |-> cShare])
    /\ cInner' = innerCountOf([flowerCount |-> effectiveFlowerCount(cRaw),
                               sharePct |-> cShare])
    /\ UNCHANGED <<cRaw, cShare>>
    /\ UNCHANGED <<pipeVars, multiVars, sketchVars, arrVars, genVars, rngVars, pageVars, gridVars, budVars, inlineVars>>

CountNext == CountDerive

(***************************************************************************)
(* SeededSketchPage: one effect per preset index creates a sketch          *)
(* instance, its cleanup removes it.  An instance is the closure state of  *)
(* createSketch together with its load requests in flight; its raster and  *)
(* draw list are named by what they were built from.                       *)
(***************************************************************************)
\* the largest number of instances followed
MaxInstances == 3

\* presets.length
PagePresets == 2

\* the closure state when p.setup returns, and the requests in flight
newInstance(preset) ==
    [preset |-> preset, removed |-> FALSE,
     imagePending |-> TRUE, spritesPending |-> NumSprites,
     remaining |-> NumSprites, raw |-> 0, flowerSprites |-> 0,
     drawList |-> <<>>, isReady |-> FALSE, builds |-> 0]

\* rebuildImageAndCache on the closure state c
rebuilt(c) ==
    [c EXCEPT !.drawList = <<c.raw, c.flowerSprites, c.preset>>,
              !.isReady = TRUE, !.builds = c.builds + 1]

\* the image callback of a request made for preset: raw = loaded, rebuild
imageLoaded(c, preset) == rebuilt([c EXCEPT !.raw = preset + 1])

\* done() of loadFlowerSprites after a sprite callback
spriteLoaded(c) ==
    IF c.remaining - 1 > 0 THEN [c EXCEPT !.remaining = c.remaining - 1]
    ELSE LET d == [c EXCEPT !.remaining = c.remaining - 1,
                            !.flowerSprites = NumSprites]
         IN  IF d.raw = 0 THEN d ELSE rebuilt(d)

\* closure state kept in one place for all instances: a callback writes to
\* the instance the page shows
writesToCurrent(k, current) == current

\* the instance whose closure variables a callback of instance k writes
ownerOf(k, current) == k

PageIdle ==
    /\ pgIndex = 0
    /\ pgRef = 0
    /\ pgInst = <<>>

\* the page is mounted: the effect has created the first instance
PageStart ==
    /\ pgIndex = 0
    /\ pgRef = 1
    /\ pgInst = <<newInstance(0)>>

\* a click: setIndex, the cleanup of the effect removes the instance and
\* clears the ref, the effect creates the instance of the next preset
PageAdvance ==
    /\ pgRef # 0
    /\ Len(pgInst) < MaxInstances
    /\ pgIndex' = (pgIndex + 1) % PagePresets
    /\ pgInst' = Append([pgInst EXCEPT ![pgRef].removed = TRUE],
                        newInstance((pgIndex + 1) % PagePresets))
    /\ pgRef' = Len(pgInst) + 1
    /\ UNCHANGED <<pipeVars, multiVars, sketchVars, arrVars, genVars, rngVars, cntVars, gridVars, budVars, inlineVars>>

\* the source image of instance k has loaded, whether k is still shown or not
PageImageCallback(k) ==
    /\ k \in 1 .. Len(pgInst)
    /\ pgInst[k].imagePending
    /\ pgInst' =
           LET served == [pgInst EXCEPT ![k].imagePending = FALSE]
               t      == ownerOf(k, pgRef)
           IN  [served EXCEPT ![t] = imageLoaded(served[t], pgInst[k].preset)]
    /\ UNCHANGED <<pgIndex, pgRef>>
    /\ UNCHANGED <<pipeVars, multiVars, sketchVars, arrVars, genVars, rngVars, cntVars, gridVars, budVars, inlineVars>>

\* a sprite of instance k has loaded
PageSpriteCallback(k) ==
    /\ k \in 1 .. Len(pgInst)
    /\ pgInst[k].spritesPending > 0
    /\ pgInst' =
           LET served == [pgInst EXCEPT ![k].spritesPending = pgInst[k].spritesPending - 1]
               t      == ownerOf(k, pgRef)
           IN  [served EXCEPT ![t] = spriteLoaded(served[t])]
    /\ UNCHANGED <<pgIndex, pgRef>>
    /\ UNCHANGED <<pipeVars, multiVars, sketchVars, arrVars, genVars, rngVars, cntVars, gridVars, budVars, inlineVars>>

PageNext ==
    \/ PageAdvance
    \/ \E k \in 1 .. MaxInstances : PageImageCallback(k)
    \/ \E k \in 1 .. MaxInstances : PageSpriteCallback(k)

(***************************************************************************)
(* createSketch: pixel size, working resolution and the cells of a draw    *)
(***************************************************************************)
\* vars.pixelScale in tenths: negative, zero, fractional, whole and larger
\* than the canvas, or not given
SamplePixelScales ==
    { [given |-> FALSE, tenths |-> 0] } \cup
    { [given |-> TRUE, tenths |-> t] : t \in {-20, 0, 5, 10, 19, 20, 35, 90} }

\* the canvas sizes createCanvas is given
SampleCanvases == { [w |-> w, h |-> h] : w \in {1, 2, 5}, h \in {1, 3} }

\* vars.pixelScale ?? 3
DefaultPixelScale10 == 30

\* Math.max(1, Math.floor(vars.pixelScale ?? 3))
pixelScaleOption(opt) ==
    Max(1, (IF opt.given THEN opt.tenths ELSE DefaultPixelScale10) \div 10)

\* a resolution without the floor of one
flooredSize(extent, pixelScale) == extent \div pixelScale

\* Math.max(1, Math.floor(p.width / pixelScale))
workingSize(extent, pixelScale) == Max(1, extent \div pixelScale)

RECURSIVE gridIndices(_, _, _, _)
\* the indices rebuildImageAndCache collects from a raster of w x h cells
\* in which every darkEvery-th cell is of the darkest colour (0: none is)
gridIndices(w, h, darkEvery, i) ==
    IF i >= w * h THEN <<>>
    ELSE (IF darkEvery > 0 /\ i % darkEvery = 0 THEN <<>> ELSE <<i>>)
         \o gridIndices(w, h, darkEvery, i + 1)

\* x, y, px and py of p.draw for the index i
cellOf(i, finalW, pixelScale) ==
    <<i % finalW, i \div finalW, (i % finalW) * pixelScale, (i \div finalW) * pixelScale>>

GridIdle ==
    /\ rOpt = [given |-> FALSE, tenths |-> 0]
    /\ rCanvas = [w |-> 0, h |-> 0]
    /\ rDarkEvery = 0
    /\ rStage = "idle"
    /\ rPixelScale = 0
    /\ rFinalW = 0
    /\ rFinalH = 0
    /\ rDrawIdx = <<>>
    /\ rCells = <<>>

\* createSketch is called
GridStart ==
    /\ rOpt \in SamplePixelScales
    /\ rCanvas \in SampleCanvases
    /\ rDarkEvery \in {0, 2}
    /\ rStage = "called"
    /\ rPixelScale = 0
    /\ rFinalW = 0
    /\ rFinalH = 0
    /\ rDrawIdx = <<>>
    /\ rCells = <<>>

\* the options are read
GridOptions ==
    /\ rStage = "called"
    /\ rStage' = "options"
    /\ rPixelScale' = pixelScaleOption(rOpt)
    /\ UNCHANGED <<rOpt, rCanvas, rDarkEvery, rFinalW, rFinalH, rDrawIdx, rCells>>
    /\ UNCHANGED <<pipeVars, multiVars, sketchVars, arrVars, genVars, rngVars, cntVars, pageVars, budVars, inlineVars>>

\* rebuildImageAndCache: resolution, raster, indices and their shuffle
GridRebuild ==
    /\ rStage = "options"
    /\ rStage' = "built"
    /\ rFinalW' = workingSize(rCanvas.w, rPixelScale)
    /\ rFinalH' = workingSize(rCanvas.h, rPixelScale)
    /\ rDrawIdx' = shuffleDrawIdxOnce(
           gridIndices(workingSize(rCanvas.w, rPixelScale),
                       workingSize(rCanvas.h, rPixelScale), rDarkEvery, 0),
           1337)
    /\ UNCHANGED <<rOpt, rCanvas, rDarkEvery, rPixelScale, rCells>>
    /\ UNCHANGED <<pipeVars, multiVars, sketchVars, arrVars, genVars, rngVars, cntVars, pageVars, budVars, inlineVars>>

\* p.draw: every index of the draw order is turned into a cell
GridDraw ==
    /\ rStage = "built"
    /\ rStage' = "drawn"
    /\ rCells' = [k \in 1 .. Len(rDrawIdx) |-> cellOf(rDrawIdx[k], rFinalW, rPixelScale)]
    /\ UNCHANGED <<rOpt, rCanvas, rDarkEvery, rPixelScale, rFinalW, rFinalH, rDrawIdx>>
    /\ UNCHANGED <<pipeVars, multiVars, sketchVars, arrVars, genVars, rngVars, cntVars, pageVars, budVars, inlineVars>>

GridNext == GridOptions \/ GridRebuild \/ GridDraw

(***************************************************************************)
(* p.draw of the multi-layer sketches: the budgets of the layers           *)
(***************************************************************************)
\* the sketches that split one budget over their layers
BudgetVariants == {"part_002", "part_003"}

\* drawable cells of the layers: none, few, and the sizes of a 6 x 5 raster
SampleLayerCounts ==
    { [bottom |-> b, top |-> t, side |-> s] :
        b \in {0, 1, 7, 14, 16, 30}, t \in {0, 2, 14, 16, 30}, s \in {0, 3} }

\* maxPixels in halves and minCoverage in quarters
SampleBudgetOptions ==
    { [maxPixels2 |-> m, minCoverage4 |-> c, shuffleEveryNFrames |-> 0,
       rngSeed |-> 1337, pixelScale |-> 1, sideImagePath |-> FALSE] :
        m \in {-2, 0, 7, 14, 44, 45, 100000}, c \in {-1, 0, 1, 2, 5} }

BudgetIdle ==
    /\ bdVariant = "part_003"
    /\ bdCfg = [maxPixels2 |-> 0, minCoverage4 |-> 0, shuffleEveryNFrames |-> 0,
                rngSeed |-> 0, pixelScale |-> 1, sideImagePath |-> FALSE]
    /\ bdCount = [bottom |-> 0, top |-> 0, side |-> 0]
    /\ bdStage = "idle"
    /\ bdBudget = NoBudget

\* a sketch that is ready, with the caches of its layers built
BudgetStart ==
    /\ bdVariant \in BudgetVariants
    /\ bdCfg \in SampleBudgetOptions
    /\ bdCount \in SampleLayerCounts
    /\ (bdVariant = "part_002" => bdCount.side = 0)
    /\ bdStage = "ready"
    /\ bdBudget = NoBudget

\* p.draw: the budgets handed to the draw functions of the layers
BudgetDraw ==
    /\ bdStage = "ready"
    /\ bdStage' = "drawn"
    /\ bdBudget' = layerBudgets(bdVariant, bdCount.bottom, bdCount.top, bdCount.side, bdCfg)
    /\ UNCHANGED <<bdVariant, bdCfg, bdCount>>
    /\ UNCHANGED <<pipeVars, multiVars, sketchVars, arrVars, genVars, rngVars, cntVars, pageVars, gridVars, inlineVars>>

BudgetNext == BudgetDraw

(***************************************************************************)
(* createSketch.ts: buildFlowerPlacements, the placement loop              *)
(***************************************************************************)
\* for (let attempt = 0; attempt < 60; attempt += 1)
PlacementAttempts == 60

\* 12 + Math.floor(rand() * 50)
CountBase == 12
CountSpan == 50

\* RNG_SEED: the default, zero, and the seeds of the least and largest count
SampleInlineSeeds == {1337, 0, 47, 7}

\* fittedW and fittedH before an image is fitted, degenerate, and fitted
SampleFitted ==
    { [w |-> 0, h |-> 0], [w |-> 40, h |-> -10], [w |-> 0, h |-> 60], [w |-> 40, h |-> 60] }

\* A draw of the stream is a position in tenths of a pixel, the collision
\* radius in tenths that the drawn size gives, and rand() in tenths.
\* a stream that repeats one position: every slot but the first runs out
SameSpot == << [x |-> 0, y |-> 0, cr |-> 36, u10 |-> 4] >>

\* a stream of 64 positions 30 pixels apart
SpreadOut ==
    [k \in 1 .. 64 |->
        [x |-> 300 * ((k - 1) % 8), y |-> 300 * ((k - 1) \div 8),
         cr |-> 36 + 20 * ((k - 1) % 3), u10 |-> (k - 1) % 10]]

\* a stream of five positions, two of them too near each other
FewSpots ==
    << [x |-> 0,   y |-> 0,   cr |-> 36, u10 |-> 9],
       [x |-> 300, y |-> 0,   cr |-> 93, u10 |-> 0],
       [x |-> 60,  y |-> 40,  cr |-> 50, u10 |-> 5],
       [x |-> 0,   y |-> 400, cr |-> 36, u10 |-> 7],
       [x |-> 300, y |-> 400, cr |-> 70, u10 |-> 2] >>

SampleInlineStreams == {SameSpot, SpreadOut, FewSpots}

drawOf(stream, used) == stream[(used % Len(stream)) + 1]

\* const count = 12 + Math.floor(rand() * 50), rand being
\* mulberry32((RNG_SEED ^ 0x9e3779b9) >>> 0)
placementCount(seed) ==
    CountBase + FloorMul(
        mulberryOut(mulberryAdvance(
            mulberry32(Xor32(ToUint32(seed), Word(40503, 31161))))),
        CountSpan)

\* dx * dx + dy * dy < minDist * minDist, with
\* minDist = (collisionRadius + other.collisionRadius) * 1.24 + 1.5;
\* lengths in tenths, minDist in thousandths
overlapsWith(x, y, cr, other) ==
    LET d2 == (x - other.x) * (x - other.x) + (y - other.y) * (y - other.y)
        m  == (cr + other.collisionRadius) * 124 + 1500
        q  == (m * m) \div 10000
    IN  d2 < q \/ (d2 = q /\ (m * m) % 10000 > 0)

overlapsPlaced(placed, x, y, cr) ==
    \E j \in 1 .. Len(placed) : overlapsWith(x, y, cr, placed[j])

RECURSIVE attemptLoop(_, _, _, _, _, _)
\* the attempts of one slot: the first position that overlaps no placed
\* one is accepted
attemptLoop(stream, placed, cr, spriteIndex, used, attempt) ==
    IF attempt >= PlacementAttempts THEN [accepted |-> FALSE, used |-> used]
    ELSE LET d == drawOf(stream, used)
         IN  IF ~overlapsPlaced(placed, d.x, d.y, cr)
             THEN [accepted |-> TRUE, used |-> used + 1,
                   placement |-> [x |-> d.x, y |-> d.y, spriteIndex |-> spriteIndex,
                                  collisionRadius |-> cr]]
             ELSE attemptLoop(stream, placed, cr, spriteIndex, used + 1, attempt + 1)

\* the fallback position, taken as drawn
fallbackPlacement(stream, used, cr, spriteIndex) ==
    [x |-> drawOf(stream, used).x, y |-> drawOf(stream, used).y,
     spriteIndex |-> spriteIndex, collisionRadius |-> cr]

\* a slot that is left out when none of its attempts is accepted
pushAcceptedOnly(placed, loop, fallback) ==
    IF loop.accepted THEN Append(placed, loop.placement) ELSE placed

\* if (!accepted) accepted = fallback; placed.push(accepted)
pushSlot(placed, loop, fallback) ==
    Append(placed, IF loop.accepted THEN loop.placement ELSE fallback)

InlineIdle ==
    /\ ipSeed = 0
    /\ ipFitted = [w |-> 0, h |-> 0]
    /\ ipSprites = 0
    /\ ipStream = <<>>
    /\ ipUsed = 0
    /\ ipStage = "idle"
    /\ ipCount = 0
    /\ ipSlot = 0
    /\ ipPlaced = <<>>
    /\ ipFallbacks = 0
    /\ ipResult = <<>>

\* buildFlowerPlacements is called
InlineStart ==
    /\ ipSeed \in SampleInlineSeeds
    /\ ipFitted \in SampleFitted
    /\ ipSprites \in {0, NumSprites}
    /\ ipStream \in SampleInlineStreams
    /\ ipUsed = 0
    /\ ipStage = "called"
    /\ ipCount = 0
    /\ ipSlot = 0
    /\ ipPlaced = <<>>
    /\ ipFallbacks = 0
    /\ ipResult \in {<<>>, <<[x |-> 0, y |-> 0, spriteIndex |-> 0, collisionRadius |-> 36]>>}

\* the guard on the fitted size, then count
InlineEnter ==
    /\ ipStage = "called"
    /\ IF ipFitted.w <= 0 \/ ipFitted.h <= 0
       THEN /\ ipResult' = <<>>
            /\ ipStage' = "done"
            /\ UNCHANGED ipCount
       ELSE /\ ipCount' = placementCount(ipSeed)
            /\ ipStage' = "placing"
            /\ UNCHANGED ipResult
    /\ UNCHANGED <<ipSeed, ipFitted, ipSprites, ipStream, ipUsed, ipSlot, ipPlaced, ipFallbacks>>
    /\ UNCHANGED <<pipeVars, multiVars, sketchVars, arrVars, genVars, rngVars, cntVars, pageVars, gridVars, budVars>>

\* one pass of for (let i = 0; i < count; i += 1)
InlineSlot ==
    /\ ipStage = "placing"
    /\ ipSlot < ipCount
    /\ LET s    == drawOf(ipStream, ipUsed)
           si   == (s.u10 * Max(1, ipSprites)) \div 10
           loop == attemptLoop(ipStream, ipPlaced, s.cr, si, ipUsed + 1, 0)
       IN  /\ ipPlaced' = pushSlot(ipPlaced, loop,
                                   fallbackPlacement(ipStream, loop.used, s.cr, si))
           /\ ipUsed' = IF loop.accepted THEN loop.used ELSE loop.used + 1
           /\ ipFallbacks' = IF loop.accepted THEN ipFallbacks ELSE ipFallbacks + 1
    /\ ipSlot' = ipSlot + 1
    /\ UNCHANGED <<ipSeed, ipFitted, ipSprites, ipStream, ipStage, ipCount, ipResult>>
    /\ UNCHANGED <<pipeVars, multiVars, sketchVars, arrVars, genVars, rngVars, cntVars, pageVars, gridVars, budVars>>

\* flowerPlacements = placed
InlineFinish ==
    /\ ipStage = "placing"
    /\ ~(ipSlot < ipCount)
    /\ ipResult' = ipPlaced
    /\ ipStage' = "done"
    /\ UNCHANGED <<ipSeed, ipFitted, ipSprites, ipStream, ipUsed, ipCount, ipSlot, ipPlaced,
                   ipFallbacks>>
    /\ UNCHANGED <<pipeVars, multiVars, sketchVars, arrVars, genVars, rngVars, cntVars, pageVars, gridVars, budVars>>

InlineNext == InlineEnter \/ InlineSlot \/ InlineFinish

(***************************************************************************)
(* Specifications                                                          *)
(***************************************************************************)
\* the image pipeline as a function of its input raster
PipeInit == PipeStart /\ MultiIdle /\ SketchIdle /\ ArrIdle /\ PresetIdle /\ RngIdle /\ CountIdle /\ PageIdle /\ GridIdle /\ BudgetIdle /\ InlineIdle

SpecPipe == PipeInit /\ [][PipeNext]_vars

\* one multi-layer sketch from the end of setup on
MultiInit == MultiStart /\ PipeIdle /\ SketchIdle /\ ArrIdle /\ PresetIdle /\ RngIdle /\ CountIdle /\ PageIdle /\ GridIdle /\ BudgetIdle /\ InlineIdle

SpecMulti == MultiInit /\ [][MultiNext]_vars


\* one createSketch instance from the end of setup on
SketchInit == SketchStart /\ PipeIdle /\ MultiIdle /\ ArrIdle /\ PresetIdle /\ RngIdle /\ CountIdle /\ PageIdle /\ GridIdle /\ BudgetIdle /\ InlineIdle

SpecSketch == SketchInit /\ [][SketchNext]_vars

\* one call of generateFlowerArrangement and the composite of its result
ArrInit == ArrStart /\ PipeIdle /\ MultiIdle /\ SketchIdle /\ PresetIdle /\ RngIdle /\ CountIdle /\ PageIdle /\ GridIdle /\ BudgetIdle /\ InlineIdle

SpecArr == ArrInit /\ [][ArrNext]_vars

\* the calls of a preset generator with one configuration
PresetInit ==
    PresetStart /\ PipeIdle /\ MultiIdle /\ SketchIdle /\ ArrIdle /\ RngIdle /\ CountIdle /\ PageIdle /\ GridIdle /\ BudgetIdle /\ InlineIdle

SpecPreset == PresetInit /\ [][PresetNext]_vars

\* one generator and its calls
RngInit ==
    RngStart /\ PipeIdle /\ MultiIdle /\ SketchIdle /\ ArrIdle /\ PresetIdle /\ CountIdle /\ PageIdle /\ GridIdle /\ BudgetIdle /\ InlineIdle

SpecRng == RngInit /\ [][RngNext]_vars

\* a sketch of either kind, single image or multi-layer, from the end of
\* setup on (the single-image sketch with some sprite files missing)
DrawOrderInit ==
    (SketchInit /\ sCfg.failing = {2, 7}) \/ (MultiInit /\ mCfg.maxPixels2 \in {7, 100000})

SpecDrawOrder == DrawOrderInit /\ [][SketchNext \/ MultiNext]_vars

\* the counts of one call of generateFlowerArrangement
CountInit ==
    CountStart /\ PipeIdle /\ MultiIdle /\ SketchIdle /\ ArrIdle /\ PresetIdle /\ RngIdle /\ PageIdle /\ GridIdle /\ BudgetIdle /\ InlineIdle

SpecCount == CountInit /\ [][CountNext]_vars

\* the page from its mount on
PageInit ==
    PageStart /\ PipeIdle /\ MultiIdle /\ SketchIdle /\ ArrIdle /\ PresetIdle /\ RngIdle /\ CountIdle /\ GridIdle /\ BudgetIdle /\ InlineIdle

SpecPage == PageInit /\ [][PageNext]_vars

\* the working resolution of one createSketch call and its first drawn frame
GridInit ==
    GridStart /\ PipeIdle /\ MultiIdle /\ SketchIdle /\ ArrIdle /\ PresetIdle /\ RngIdle /\ CountIdle /\ PageIdle /\ BudgetIdle /\ InlineIdle

SpecGrid == GridInit /\ [][GridNext]_vars

\* the budgets of one draw call of a multi-layer sketch
BudgetInit ==
    BudgetStart /\ PipeIdle /\ MultiIdle /\ SketchIdle /\ ArrIdle /\ PresetIdle /\ RngIdle /\ CountIdle /\ PageIdle /\ GridIdle /\ InlineIdle

SpecBudget == BudgetInit /\ [][BudgetNext]_vars

\* one call of buildFlowerPlacements of createSketch.ts
InlineInit ==
    InlineStart /\ PipeIdle /\ MultiIdle /\ SketchIdle /\ ArrIdle /\ PresetIdle /\ RngIdle /\ CountIdle /\ PageIdle /\ GridIdle /\ BudgetIdle

SpecInline == InlineInit /\ [][InlineNext]_vars

(***************************************************************************)
(* Claims                                                                  *)
(***************************************************************************)
PaletteSet(v) == {palette(v)[i] : i \in 1 .. Len(palette(v))}

PixelRGB(img, i) == <<img.px[i][1], img.px[i][2], img.px[i][3]>>

\* C1: after applyDither every pixel of the raster is exactly one of the
\* entries of the variant's palette, in every sketch variant.
C1_DitherOutputInPalette ==
    pStage = "dither" =>
        \A i \in DOMAIN pImg.px : PixelRGB(pImg, i) \in PaletteSet(pVariant)

(***************************************************************************)
(* Multi-layer draw: budgets                                               *)
(***************************************************************************)
BudgetSum(bud) == bud.bottom + bud.top + bud.side

\* cells handed to the renderer by the last draw call
Realized == Len(mDrawn.bottom) + Len(mDrawn.top) + Len(mDrawn.side)

\* drawCountBottom + drawCountTop + drawCountSide
TotalDrawable == mDrawCount["bottom"] + mDrawCount["top"] + mDrawCount["side"]

SplitsBudget == mVariant \in {"part_002", "part_003"}

\* C3 as stated: in a draw of the multi-layer sketch the per-layer budgets
\* sum to at most the requested total budget maxPixels.
C3_BudgetSumWithinMaxPixels ==
    mDrawn.kind = "cells" => BudgetSum(mDrawn.budget) <= MAX_PIXELS(mCfg)

\* C3: in the sketches that split one budget (part_002, part_003) the
\* per-layer budgets sum to at most the larger of maxPixels and the coverage
\* floor floor(totalDrawable * minCoverage), and to at most totalDrawable; in
\* part_004 the top budget alone is capped by maxPixels, the bottom layer is
\* drawn in full.
C3_BudgetSumWithinCapOrFloor ==
    mDrawn.kind = "cells" =>
        IF SplitsBudget
        THEN /\ BudgetSum(mDrawn.budget)
                    <= Max(MAX_PIXELS(mCfg), minBudget(TotalDrawable, mCfg))
             /\ BudgetSum(mDrawn.budget) <= TotalDrawable
        ELSE /\ mDrawn.budget.top <= MAX_PIXELS(mCfg)
             /\ mDrawn.budget.bottom = Len(buildCache(mVariant, mImg["bottom"]))

\* a draw whose budgets exceed maxPixels because the coverage floor is larger,
\* without reaching all drawable cells
C3_Witness ==
    /\ mDrawn.kind = "cells"
    /\ mVariant = "part_003"
    /\ BudgetSum(mDrawn.budget) > MAX_PIXELS(mCfg)
    /\ BudgetSum(mDrawn.budget) = minBudget(TotalDrawable, mCfg)
    /\ BudgetSum(mDrawn.budget) < TotalDrawable
    /\ mDrawn.budget.side > 0

\* C4: the cells realized over all layers in one draw call are at least
\* floor(totalDrawable * minCoverage), minCoverage clamped to [0, 1],
\* whatever maxPixels is.
C4_CoverageFloorRealized ==
    mDrawn.kind = "cells" => Realized >= minBudget(TotalDrawable, mCfg)

\* a draw in which the floor is above maxPixels and is what gets realized
C4_Witness ==
    /\ mDrawn.kind = "cells"
    /\ MIN_COVERAGE4(mCfg) > 0
    /\ MAX_PIXELS(mCfg) < minBudget(TotalDrawable, mCfg)
    /\ Realized = minBudget(TotalDrawable, mCfg)
    /\ Len(mDrawn.bottom) > 0 /\ Len(mDrawn.top) > 0

(***************************************************************************)
(* Multi-layer draw: reshuffling                                           *)
(***************************************************************************)
\* C6: a layer's reshuffle is a function of (seed, frame count) alone, so
\* calling it once more with the frame count of the last shuffle leaves the
\* order as it is.
C6_ReshuffleIdempotent ==
    mIsReady =>
        \A l \in ShuffledLayers(mVariant) :
            shuffleDrawIdx(l, mDrawIdx[l], mCfg.rngSeed, mShuffledAt) = mDrawIdx[l]

(***************************************************************************)
(* Failed loads                                                            *)
(***************************************************************************)
\* C10: when the load of a source image has failed, the source used in its
\* place is the procedural gradient, and the sketch gets ready once all
\* callbacks have run.
C10_FallbackIsGradient ==
    /\ \A l \in mFailed : mRaw[l] = GradientSource
    /\ (mPending = {} /\ mVariant \in MultiVariants) => mIsReady

\* C2: in createSketch, once the sketch is ready, a draw call hands the
\* renderer exactly the first min(maxPixels, drawOrder.length) entries of the
\* shuffled draw order, maxPixels being floored and negative values giving 0.
C2_DrawHandsBudgetedPrefix ==
    [][(sIsReady /\ sImg # NullImage /\ sDrawn' # sDrawn) =>
           sDrawn' = [kind |-> "cells",
                      cells |-> SubSeq(sDrawIdx, 1,
                                       Min(Max(0, sCfg.maxPixels2 \div 2),
                                           Len(sDrawIdx)))]]_vars

\* a ready sketch whose fractional budget cut the draw order short
C2_Witness ==
    /\ sIsReady
    /\ sCfg.maxPixels2 = 3
    /\ Len(sDrawIdx) > 1
    /\ sDrawn = [kind |-> "cells", cells |-> SubSeq(sDrawIdx, 1, 1)]

\* C5: in createSketch, rebuildImageAndCache is invoked exactly once per
\* sketch configuration, for every order of the source-image callback and the
\* seven sprite callbacks.
C5_BuildsExactlyOnce ==
    /\ sBuilds <= 1
    /\ (sVariant \in SketchVariants /\ ~sImagePending /\ sPendingSprites = {}
           /\ sRemaining = 0 /\ sRaw # NullSource) => sBuilds = 1

\* the two points are at least minGap25 apart
apart(a, b, minGap25) ==
    distanceSquared(a.x, a.y, b.x, b.y) * 625 >= minGap25 * minGap25

\* C7: in generateFlowerArrangement every accepted point is at least its own
\* ring's minimum gap away from every point accepted before it, in its own
\* ring and in the ring already placed (the outer points for an inner
\* point); so all pairs within one ring are at least that ring's gap apart.
C7_AcceptedPointsKeepMinGap ==
    /\ \A j \in 1 .. Len(aOuter) : \A i \in 1 .. (j - 1) :
           apart(aOuter[i], aOuter[j], ringOptions(aCfg).minGap25)
    /\ \A j \in 1 .. Len(aInner) :
           /\ \A i \in 1 .. (j - 1) :
                  apart(aInner[i], aInner[j], innerOptions(aCfg).minGap25)
           /\ \A i \in 1 .. Len(aOuter) :
                  apart(aOuter[i], aInner[j], innerOptions(aCfg).minGap25)

\* a finished arrangement with several outer points and an inner point, in
\* which candidates were rejected
C7_Witness ==
    /\ aRing = "done"
    /\ Len(aOuter) >= 2
    /\ Len(aInner) >= 1
    /\ aUsed > Len(aOuter) + Len(aInner)

\* C8: the list generateFlowerArrangement returns is non-decreasing in
\* depth, and the compositor draws the sprites in exactly that list order.
C8_SortedAndDrawnInListOrder ==
    /\ aRing \in {"done", "composited"} =>
           \A i \in 1 .. (Len(aPoints) - 1) : aPoints[i].depth <= aPoints[i + 1].depth
    /\ aRing = "composited" =>
           /\ Len(aDrawn) = Len(aPoints)
           /\ \A i \in 1 .. Len(aDrawn) : aDrawn[i][1] = i

\* a composited arrangement whose points were pushed out of depth order
C8_Witness ==
    /\ aRing = "composited"
    /\ Len(aDrawn) >= 3
    /\ aPoints # aOuter \o aInner

\* C9 as stated: with flowerCount 6 and bouquetScale 0, other knobs minimal,
\* generateFlowerArrangement returns at least 2 points for every random
\* stream.
C9_AtLeastTwoPoints ==
    (aRing \in {"done", "composited"} /\ aCfg.flowerCount = 6) => Len(aPoints) >= 2

\* C9 as the code has it: with flowerCount 6 and bouquetScale 0, other knobs
\* minimal, generateFlowerArrangement returns at least 1 and at most 6
\* points for every random stream.
C9_AtLeastOnePoint ==
    (aRing \in {"done", "composited"} /\ aCfg.flowerCount = 6) =>
        (Len(aPoints) >= 1 /\ Len(aPoints) <= aCfg.flowerCount)

\* a call with flowerCount 6 that used all its attempts and returned a
\* single point
C9_Witness ==
    /\ aRing = "done"
    /\ aCfg.flowerCount = 6
    /\ Len(aPoints) = 1
    /\ aUsed = (outerCountOf(aCfg) + innerCountOf(aCfg)) * 140

\* the sprites of flowerSprites
SpriteSet == {sFlowerSprites[i] : i \in DOMAIN sFlowerSprites}

\* C11: for every subset of the seven sprite loads that fails, the sprite
\* set is exactly the loaded sprites in path order, every composited
\* placement reads sprite index spriteIndex mod the number of sprites, which
\* is in range, and with no sprite loaded nothing is composited and the
\* build still completes.
C11_FailedSpritesOmitted ==
    /\ (sCfg \in SketchConfigs /\ sRemaining = 0) =>
           /\ SpriteSet = Sprites \ sCfg.failing
           /\ \A i \in 1 .. (Len(sFlowerSprites) - 1) :
                  sFlowerSprites[i] < sFlowerSprites[i + 1]
    /\ (sCfg \in SketchConfigs /\ sRemaining > 0) => sFlowerSprites = <<>>
    /\ sBuilds > 0 =>
           IF Len(sFlowerSprites) = 0
           THEN sComposited = <<>>
           ELSE /\ Len(sComposited) = Len(sPlacements)
                /\ \A k \in 1 .. Len(sComposited) :
                       /\ sComposited[k][1] = k
                       /\ (sPlacements[k].spriteIndex % Len(sFlowerSprites)) + 1
                              \in DOMAIN sFlowerSprites
                       /\ sComposited[k][2] =
                              sFlowerSprites[(sPlacements[k].spriteIndex
                                                 % Len(sFlowerSprites)) + 1]
                       /\ sComposited[k][2] \in Sprites \ sCfg.failing
    /\ (sCfg \in SketchConfigs /\ sRemaining = 0 /\ ~sImagePending) => sIsReady

\* a finished build in which two sprite loads failed and a placement is
\* drawn with a sprite that moved up in the sprite set
C11_Witness ==
    /\ sRemaining = 0
    /\ sCfg \in SketchConfigs
    /\ sCfg.failing = {2, 7}
    /\ sIsReady
    /\ \E k \in 1 .. Len(sComposited) :
           sComposited[k][2] # sPlacements[k].spriteIndex + 1

\* the results agree on the items both have
SameItems(a, b) ==
    \A n \in 1 .. Min(Len(a.items), Len(b.items)) : a.items[n] = b.items[n]

\* two calls with equal inputs return identical bundles, and changing the
\* requested count does not change item i
Reproducible ==
    /\ gSecond.called => gSecond.items = gFirst.items
    /\ gOther.called => SameItems(gOther, gFirst)

\* seed + i * 1013904223 modulo 2^32, on the halves of the seed
SeedPlusLcg(seed, i) ==
    LET lo == (seed % W16) + i * 62303
        hi == (seed \div W16) + i * 15470 + (lo \div W16)
    IN  Word(hi % W16, lo % W16)

\* item n was drawn from the start of a generator seeded per item
PerItemSeeded(result) ==
    \A n \in 1 .. Len(result.items) :
        /\ result.items[n].seed = SeedPlusLcg(gSeed, n - 1)
        /\ result.items[n].skipped = 0

C13_FixedOverridesAppliedLast ==
    (gGenerator = "generateDirectionOneSeededVariables" /\ gFirst.called) =>
        /\ \A n \in 1 .. Len(gFirst.items) : \A k \in DOMAIN gFixed :
               /\ k \in DOMAIN gFirst.items[n].variables
               /\ gFirst.items[n].variables[k] = gFixed[k]
        /\ gPlain.called =>
               /\ Len(gPlain.items) = Len(gFirst.items)
               /\ \A n \in 1 .. Len(gFirst.items) :
                      /\ gPlain.items[n].seed = gFirst.items[n].seed
                      /\ gPlain.items[n].skipped = gFirst.items[n].skipped
                      /\ DOMAIN gFirst.items[n].variables =
                             DOMAIN gPlain.items[n].variables \cup DOMAIN gFixed
                      /\ \A k \in DOMAIN gPlain.items[n].variables \ DOMAIN gFixed :
                             gFirst.items[n].variables[k] = gPlain.items[n].variables[k]

\* bundles with a sampled key overridden and a key added by the overrides,
\* next to the bundles without overrides
C13_Witness ==
    /\ gGenerator = "generateDirectionOneSeededVariables"
    /\ gFirst.called /\ gPlain.called
    /\ Len(gFirst.items) >= 2
    /\ DOMAIN gFixed = {"pixelScale", "drawAsRects", "shuffleEveryNFrames"}
    /\ gFirst.items[2].variables.pixelScale # gPlain.items[2].variables.pixelScale

\* C14: mulberry32 keeps a 32-bit state: after k calls the state is
\* (seed + k * 0x6d2b79f5) mod 2^32, it never leaves [0, 2^32), and each
\* returned value is a function of that state only.
C14_StateStaysIn32Bits ==
    rLive =>
        /\ rState.ov = 0
        /\ Word(rState.hi, rState.lo) =
               Word(((rSeed \div W16) + rCalls * 27947
                        + (((rSeed % W16) + rCalls * 31221) \div W16)) % W16,
                    ((rSeed % W16) + rCalls * 31221) % W16)
        /\ rCalls > 0 => rOut = mulberryOut(rState)

(***************************************************************************)
(* Brightness and contrast                                                 *)
(***************************************************************************)
InByteRange(img) ==
    \A i \in DOMAIN img.px : \A ch \in 1 .. 3 : img.px[i][ch] \in 0 .. 255

SameAlpha(a, b) ==
    /\ DOMAIN a.px = DOMAIN b.px
    /\ \A i \in DOMAIN a.px : a.px[i][4] = b.px[i][4]

\* C15: adjustBrightness and adjustContrast leave every R, G and B value in
\* [0, 255] and do not change the alpha channel, for any brightness offset
\* and any contrast factor.
C15_ChannelsStayInRange ==
    [][(PipeBrightness \/ PipeContrast) =>
          InByteRange(pImg') /\ SameAlpha(pImg, pImg')]_vars

\* a factor beyond 259 and an offset of 300 have both been applied: pixels
\* were pushed to both ends of the range
C15_Witness ==
    /\ pStage = "contrast"
    /\ pOffset = 300
    /\ pFactor = 300
    /\ pImg.w * pImg.h = 4
    /\ \E i \in DOMAIN pImg.px : pImg.px[i][1] = 0 /\ pImg.px[i][4] = 255
    /\ \E i \in DOMAIN pImg.px : pImg.px[i][4] = 0

\* C16: the contrast factor that reaches adjustContrast never makes the
\* denominator 255 * (259 - factor) zero, and no channel value is NaN.
C16_DenominatorNeverZero ==
    pStage \in {"contrast", "dither"} =>
        /\ 255 * (259 - pFactor) # 0
        /\ ~pNaN

(***************************************************************************)
(* Error diffusion                                                         *)
(***************************************************************************)
\* the working arrays r, g, b of applyDither when the pixel loop reaches
\* linear index stop
RECURSIVE ditherUpTo(_, _, _, _, _, _)
ditherUpTo(v, buf, w, h, idx, stop) ==
    IF idx >= stop THEN buf
    ELSE LET next == ditherPixel(v, buf, w, h, idx)
         IN  IF DOMAIN next = DOMAIN buf
             THEN ditherUpTo(v, next, w, h, idx + 1, stop)
             ELSE buf

\* the neighbours error is diffused to, with the numerators of their weights
Neighbours == {<<1, 0, 7>>, <<-1, 1, 3>>, <<0, 1, 5>>, <<1, 1, 1>>}

Abs(n) == IF n < 0 THEN -n ELSE n

\* the iteration at idx adds k/16 of the error to every in-bounds neighbour
\* (up to the rounding of the Float32Array store, half a unit of 1/Fix)
AddedInFull(before, after, w, h, idx) ==
    \A nb \in Neighbours :
        LET x == (idx % w) + nb[1]
            y == (idx \div w) + nb[2]
            n == x + y * w
        IN  (x >= 0 /\ x < w /\ y < h) =>
                \A ch \in 1 .. 3 :
                    Abs(after[n][ch] * 16
                        - (before[n][ch] * 16
                           + (before[idx][ch] - after[idx][ch]) * nb[3])) <= 8

DiffusedInFullAt(v, before, w, h, idx) ==
    AddedInFull(before, ditherPixel(v, before, w, h, idx), w, h, idx)

\* C17: in applyDither the quantization error of each pixel is added in
\* full to its in-bounds right, below-left, below and below-right neighbours
\* with weights 7/16, 3/16, 5/16 and 1/16; none of it is lost at an
\* in-bounds neighbour.
C17_ErrorAddedInFull ==
    [][PipeDither =>
          \A idx \in DOMAIN pImg.px :
              DiffusedInFullAt(pVariant,
                               ditherUpTo(pVariant,
                                          [i \in DOMAIN pImg.px |->
                                              << pImg.px[i][1] * Fix,
                                                 pImg.px[i][2] * Fix,
                                                 pImg.px[i][3] * Fix >>],
                                          pImg.w, pImg.h, 0, idx),
                               pImg.w, pImg.h, idx)]_vars

(***************************************************************************)
(* Palette quantization                                                    *)
(***************************************************************************)
\* squared distance of the Fix-scaled colour buf to palette entry i
DistTo(v, c, i) ==
    Dist2(c[1] - palette(v)[i][1] * Fix, c[2] - palette(v)[i][2] * Fix,
          c[3] - palette(v)[i][3] * Fix)

\* pick is the first palette entry at minimal squared distance from c
FirstNearest(v, c, pick) ==
    \E i \in 1 .. Len(palette(v)) :
        /\ palette(v)[i] = pick
        /\ \A j \in 1 .. Len(palette(v)) :
               /\ ~DistLess(DistTo(v, c, j), DistTo(v, c, i))
               /\ j < i => DistLess(DistTo(v, c, i), DistTo(v, c, j))

QuantizedRight(v, c) ==
    LET pick == nearestPalette(v, c[1], c[2], c[3])
    IN  /\ FirstNearest(v, c, pick)
        /\ isDarkest(v, pick[1], pick[2], pick[3]) <=> pick = palette(v)[1]

\* C18: nearestPalette returns the palette entry with minimal squared
\* channel distance, the first one on ties; the returned colour is always a
\* palette entry, and isDarkest is true exactly for palette entry 0.
C18_NearestIsFirstMinimalEntry ==
    [][PipeDither =>
          \A idx \in DOMAIN pImg.px :
              QuantizedRight(pVariant,
                             ditherUpTo(pVariant,
                                        [i \in DOMAIN pImg.px |->
                                            << pImg.px[i][1] * Fix,
                                               pImg.px[i][2] * Fix,
                                               pImg.px[i][3] * Fix >>],
                                        pImg.w, pImg.h, 0, idx)[idx])]_vars

(***************************************************************************)
(* Draw order                                                              *)
(***************************************************************************)
\* linear indices of the pixels whose colour is not the background entry
DrawableSet(v, img) ==
    IF img = NullImage THEN {}
    ELSE {i \in DOMAIN img.px : PixelRGB(img, i) # palette(v)[1]}

IsPermutationOf(seq, S) ==
    /\ Len(seq) = Cardinality(S)
    /\ {seq[k] : k \in 1 .. Len(seq)} = S

\* C19: once built, the draw order of a raster is a permutation of exactly
\* the linear indices of its pixels that differ from the background entry;
\* the shuffle of the build and the reshuffles of draw never add, drop or
\* duplicate an index.
C19_DrawOrderIsPermutation ==
    /\ sIsReady =>
           /\ IsPermutationOf(sDrawIdx, DrawableSet(sVariant, sImg))
           /\ sDrawCount = Len(sDrawIdx)
    /\ mIsReady =>
           \A l \in ShuffledLayers(mVariant) :
               /\ IsPermutationOf(mDrawIdx[l], DrawableSet(mVariant, mImg[l]))
               /\ mDrawCount[l] = Len(mDrawIdx[l])

\* draw has reshuffled a layer that has background pixels and at least two
\* drawable ones, and the order is no longer the raster order
C19_Witness ==
    /\ mIsReady
    /\ mShuffledAt > 0
    /\ \E l \in ShuffledLayers(mVariant) :
           /\ Len(mDrawIdx[l]) >= 2
           /\ Len(mDrawIdx[l]) < mImg[l].w * mImg[l].h
           /\ mDrawIdx[l] # buildCache(mVariant, mImg[l])

(***************************************************************************)
(* Order of the build                                                      *)
(***************************************************************************)
IsPrefix(a, b) ==
    /\ Len(a) <= Len(b)
    /\ \A k \in 1 .. Len(a) : a[k] = b[k]

\* C20: in a build the raster goes through brightness, then contrast, then
\* dither, each exactly once, and its index list is collected only after
\* dithering has finished.
C20_BrightnessContrastDitherThenCollect ==
    /\ IsPrefix(pLog, <<"brightness", "contrast", "dither", "collect">>)
    /\ pStage \in {"brightness", "contrast", "dither"} =>
           pLog # <<>> /\ pLog[Len(pLog)] = pStage
    /\ pIdx # <<>> => Len(pLog) = 4
    /\ pStage = "collected" =>
           \A i \in DOMAIN pImg.px :
               (\E k \in 1 .. Len(pIdx) : pIdx[k] = i)
                   <=> PixelRGB(pImg, i) # palette(pVariant)[1]

\* a build has run to its end and collected some, not all, of the pixels
C20_Witness ==
    /\ pStage = "collected"
    /\ pLog = <<"brightness", "contrast", "dither", "collect">>
    /\ Len(pIdx) >= 1
    /\ Len(pIdx) < pImg.w * pImg.h

(***************************************************************************)
(* Ring counts                                                             *)
(***************************************************************************)
\* C21: for every flowerCount input, zero and negative included, the
\* effective count is max(6, floor(flowerCount)), the outer ring is asked for
\* at least 4 points, the inner ring for at least 2, and the two requested
\* counts sum exactly to the effective count.
C21_RingCountsSumToEffectiveCount ==
    cStage = "derived" =>
        /\ cEff >= 6
        /\ cRaw < 60 => cEff = 6
        /\ cRaw >= 60 => (cEff * 10 <= cRaw /\ cRaw < cEff * 10 + 10)
        /\ cOuter >= 4
        /\ cInner >= 2
        /\ cOuter + cInner = cEff

\* a negative flowerCount has been raised to six and split four and two
C21_Witness ==
    /\ cStage = "derived"
    /\ cRaw < 0
    /\ cEff = 6
    /\ cOuter = 4
    /\ cInner = 2

(***************************************************************************)
(* Attempts of the rings                                                   *)
(***************************************************************************)
\* C22: buildRingPoints ends after at most count * 140 attempts and returns
\* at most count points, so generateFlowerArrangement returns at most
\* flowerCount points; when fewer can be placed the other slots are left
\* out and the result is used as it is.
C22_AttemptsAndPointsBounded ==
    /\ aRing = "outer" => aAttempt < outerCountOf(aCfg) * 140
    /\ aRing = "inner" => aAttempt < innerCountOf(aCfg) * 140
    /\ aRing # "idle" =>
           /\ Len(aOuter) <= outerCountOf(aCfg)
           /\ Len(aInner) <= innerCountOf(aCfg)
           /\ aUsed <= aCfg.flowerCount * 140
    /\ aRing \in {"done", "composited"} =>
           /\ Len(aPoints) = Len(aOuter) + Len(aInner)
           /\ Len(aPoints) <= aCfg.flowerCount
    /\ aRing = "composited" => Len(aDrawn) = Len(aPoints)

\* both rings ran out of attempts and the shorter list was composited
C22_Witness ==
    /\ aRing = "composited"
    /\ aUsed = aCfg.flowerCount * 140
    /\ Len(aOuter) < outerCountOf(aCfg)
    /\ Len(aInner) < innerCountOf(aCfg)
    /\ Len(aDrawn) = Len(aPoints)
    /\ Len(aPoints) >= 1

(***************************************************************************)
(* Reshuffling in draw                                                     *)
(***************************************************************************)
\* C23: with reshuffle-every-N-frames 0 the draw order of the build is left
\* unchanged by every draw call; with N > 0 a draw call of a built sketch
\* reshuffles exactly when the frame count is a multiple of N.  (The
\* single-image sketch is sampled with N of 0 and 1: every frame count is a
\* multiple of 1.)
C23_ReshuffleExactlyEveryN ==
    [][/\ (MultiDraw /\ mIsReady) =>
             /\ (mShuffledAt' = mFrame') <=>
                    (/\ SHUFFLE_EVERY_N_FRAMES(mCfg) > 0
                     /\ mFrame' % SHUFFLE_EVERY_N_FRAMES(mCfg) = 0)
             /\ mShuffledAt' # mFrame' =>
                    (mDrawIdx' = mDrawIdx /\ mShuffledAt' = mShuffledAt)
       /\ (SketchDraw /\ sIsReady) =>
             /\ sReshuffled' <=> sCfg.shuffleEveryNFrames > 0
             /\ ~sReshuffled' => sDrawIdx' = sDrawIdx]_vars

(***************************************************************************)
(* Ownership of sketch state                                               *)
(***************************************************************************)
\* what instance k holds in its closure
closureOf(c) ==
    <<c.remaining, c.raw, c.flowerSprites, c.drawList, c.isReady, c.builds>>

LiveInstances(inst) == {i \in 1 .. Len(inst) : ~inst[i].removed}

\* C24: every sketch instance owns its raster, sprite set and draw list: a
\* load callback of an instance, replaced or not, changes no state of
\* another instance, and the page refers to at most one live instance.
C24_InstancesOwnTheirState ==
    [][/\ \A k \in 1 .. Len(pgInst) :
             (PageImageCallback(k) \/ PageSpriteCallback(k)) =>
                 \A j \in 1 .. Len(pgInst) :
                     j # k => closureOf(pgInst'[j]) = closureOf(pgInst[j])
       /\ Cardinality(LiveInstances(pgInst')) <= 1
       /\ pgRef' # 0 => pgRef' \in LiveInstances(pgInst')
       /\ \A j \in 1 .. Len(pgInst') :
             pgInst'[j].drawList # <<>> =>
                 /\ pgInst'[j].drawList[3] = pgInst'[j].preset
                 /\ pgInst'[j].drawList[1] = pgInst'[j].preset + 1]_vars

\* the page shows its third instance, which has built nothing yet, while a
\* replaced instance has completed a build from callbacks that came late
C24_Witness ==
    /\ Len(pgInst) = 3
    /\ pgRef = 3
    /\ pgInst[3].builds = 0
    /\ pgInst[3].spritesPending < NumSprites
    /\ pgInst[1].removed
    /\ pgInst[1].isReady
    /\ pgInst[1].spritesPending = 0
    /\ pgInst[2].removed
    /\ pgInst[2].builds = 0

(***************************************************************************)
(* Readiness                                                               *)
(***************************************************************************)
\* C25: no draw call renders a cell before a build has run to its end:
\* while the sketch is not ready draw paints the background only, and the
\* sketch is ready only once a build has left a raster and its draw order.
C25_NothingDrawnBeforeBuild ==
    /\ sDrawn.kind = "cells" => (sIsReady /\ sBuilds >= 1)
    /\ ~sIsReady => (sDrawn.cells = <<>> /\ sBuilds = 0)
    /\ sIsReady =>
           /\ sBuilds >= 1
           /\ sImg # NullImage
           /\ sDrawCount = Len(sDrawIdx)
    /\ mDrawn.kind = "cells" => (mIsReady /\ mBuilds >= 1)
    /\ ~mIsReady => (Realized = 0 /\ mBuilds = 0)
    /\ mIsReady =>
           /\ mBuilds >= 1
           /\ mImg["bottom"] # NullImage
           /\ mImg["top"] # NullImage
           /\ \A l \in ShuffledLayers(mVariant) : mDrawCount[l] = Len(mDrawIdx[l])

\* draw has run while loads were still in flight and painted the background
C25_Witness ==
    /\ ~mIsReady
    /\ mFrame >= 1
    /\ mDrawn.kind = "background"
    /\ mPending # {}
    /\ mRemaining < Cardinality(RequestedLayers(mVariant, mCfg))

(***************************************************************************)
(* Working resolution                                                      *)
(***************************************************************************)
\* C26: whatever pixelScale is given and whatever the canvas size, the pixel
\* size is a whole number of at least one, the working resolution is
\* max(1, floor(width / pixelSize)) x max(1, floor(height / pixelSize)), so
\* at least 1 x 1, and every index of the draw order is a cell of that grid.
C26_ResolutionAtLeastOneAndCellsInside ==
    /\ rStage \in {"options", "built", "drawn"} =>
           /\ rPixelScale \in Nat
           /\ rPixelScale >= 1
    /\ rStage \in {"built", "drawn"} =>
           /\ rFinalW = Max(1, rCanvas.w \div rPixelScale)
           /\ rFinalH = Max(1, rCanvas.h \div rPixelScale)
           /\ rFinalW >= 1
           /\ rFinalH >= 1
           /\ \A k \in 1 .. Len(rDrawIdx) :
                  rDrawIdx[k] \in 0 .. (rFinalW * rFinalH - 1)
    /\ rStage = "drawn" =>
           /\ Len(rCells) = Len(rDrawIdx)
           /\ \A k \in 1 .. Len(rCells) :
                  /\ rCells[k][1] \in 0 .. (rFinalW - 1)
                  /\ rCells[k][2] \in 0 .. (rFinalH - 1)
                  /\ rCells[k][2] * rFinalW + rCells[k][1] = rDrawIdx[k]

\* a pixel size larger than the canvas width: the floor is zero, the
\* resolution is one column wide and its cells have been drawn
C26_Witness ==
    /\ rStage = "drawn"
    /\ rOpt.given
    /\ rCanvas.w < rPixelScale
    /\ rFinalW = 1
    /\ rFinalH >= 1
    /\ Len(rCells) >= 1

(***************************************************************************)
(* Layer budgets                                                           *)
(***************************************************************************)
bdTotal == bdCount.bottom + bdCount.top + bdCount.side

\* min(totalDrawable, max(maxPixels, floor(totalDrawable x minCoverage)))
bdTotalBudget ==
    Min(bdTotal, Max(Max(0, bdCfg.maxPixels2 \div 2),
                     (bdTotal * Max(0, Min(4, bdCfg.minCoverage4))) \div 4))

BudgetLayers == IF bdVariant = "part_003" THEN {"bottom", "top", "side"} ELSE {"bottom", "top"}

\* C27: in a draw call of a multi-layer sketch every layer's budget is at
\* least floor(totalBudget x layerCells / totalDrawable) and at most the
\* layer's drawable cells, and the budgets sum to exactly totalBudget.
C27_ProportionalShareThenLeftover ==
    bdStage = "drawn" =>
        /\ \A l \in BudgetLayers :
               /\ bdTotal > 0 => bdBudget[l] >= (bdTotalBudget * bdCount[l]) \div bdTotal
               /\ bdBudget[l] <= bdCount[l]
        /\ bdBudget.bottom + bdBudget.top + bdBudget.side = bdTotalBudget

(***************************************************************************)
(* Order of the load callbacks                                             *)
(***************************************************************************)
\* what createSketch holds when the seven sprite callbacks have all fired
\* before the image callback: the last done() filters the sprites and, no
\* image being fitted yet, places nothing; the image callback builds once
spritesBeforeImage(v, cfg, src, loaded) ==
    LET sprites == filterLoaded(loaded)
        b       == rebuildImageAndCache(v, cfg, src, sprites)
    IN  [sprites    |-> sprites,
         placements |-> b.placements,
         img        |-> b.img,
         drawIdx    |-> b.drawIdx]

AllCallbacksFired == ~sImagePending /\ sPendingSprites = {} /\ sRaw # NullSource

\* C28: whatever the order in which the image callback and the seven sprite
\* callbacks fire, and whichever of them report a failure, once all have
\* fired the sprite set, the placements, the raster and the draw order are
\* those of the run in which every sprite resolves before the image.
C28_FinalStateIndependentOfCallbackOrder ==
    AllCallbacksFired =>
        LET ref == spritesBeforeImage(sVariant, sCfg, sRaw, sLoaded)
        IN  /\ sFlowerSprites = ref.sprites
            /\ sPlacements = ref.placements
            /\ sImg = ref.img
            /\ sDrawIdx = ref.drawIdx
            /\ sDrawCount = Len(ref.drawIdx)

\* the image callback fired before the last sprite callback, some sprites
\* failed, and the others are on the raster
C28_Witness ==
    /\ AllCallbacksFired
    /\ sBuilds = 2
    /\ sLoaded # {}
    /\ sLoaded # Sprites
    /\ Len(sComposited) > 0
    /\ sIsReady

(***************************************************************************)
(* The build of the multi-layer sketch                                     *)
(***************************************************************************)
\* C29: rebuildImagesAndCaches has run exactly once when every requested
\* load (bottom, top and, when configured, side) has resolved, by success
\* or failure and in whatever order, and not at all before; the sketch is
\* ready from that build on only, and a side image that failed to load
\* leaves the side layer without a drawable cell.
C29_OneBuildAfterAllLoads ==
    /\ mPending \subseteq RequestedLayers(mVariant, mCfg)
    /\ mRemaining = Cardinality(mPending)
    /\ mPending # {} => (mBuilds = 0 /\ ~mIsReady)
    /\ mPending = {} =>
           /\ mBuilds = 1
           /\ mIsReady
           /\ "side" \in mFailed =>
                  /\ mDrawCount["side"] = 0
                  /\ mDrawIdx["side"] = <<>>
                  /\ mImg["side"] = NullImage

\* the side image failed before the other two loaded, which then built the
\* bottom and top layers with drawable cells
C29_Witness ==
    /\ mPending = {}
    /\ mBuilds = 1
    /\ mIsReady
    /\ mFailed = {"side"}
    /\ mCfg.sideImagePath
    /\ mDrawCount["side"] = 0
    /\ mDrawCount["bottom"] > 0
    /\ mDrawCount["top"] > 0

(***************************************************************************)
(* The inline placements of createSketch.ts                                *)
(***************************************************************************)
\* C30: buildFlowerPlacements of createSketch.ts, given a fitted image of
\* positive width and height, ends with exactly count placements, count
\* being within 12 .. 61: every slot is filled, by an accepted attempt or,
\* when its 60 attempts all overlap, by the fallback position; with a
\* fitted width or height of zero or less the result is empty.
C30_ExactlyCountPlacements ==
    /\ ipStage = "placing" =>
           /\ ipCount \in 12 .. 61
           /\ Len(ipPlaced) = ipSlot
           /\ ipSlot <= ipCount
           /\ ipFallbacks <= ipSlot
    /\ ipStage = "done" =>
           IF ipFitted.w > 0 /\ ipFitted.h > 0
           THEN /\ ipCount \in 12 .. 61
                /\ Len(ipResult) = ipCount
           ELSE ipResult = <<>>

\* a finished call in which slots ran out of attempts: their fallback
\* positions are in the result and overlap a placement made before them
C30_Witness ==
    /\ ipStage = "done"
    /\ ipFitted.w > 0
    /\ ipFitted.h > 0
    /\ ipFallbacks > 0
    /\ Len(ipResult) = ipCount
    /\ \E j \in 2 .. Len(ipResult) :
           overlapsPlaced(SubSeq(ipResult, 1, j - 1), ipResult[j].x, ipResult[j].y,
                          ipResult[j].collisionRadius)

============================================================================
